---------------------------- MODULE Spec2Model ----------------------------
(***************************************************************************)
(* A model of the Prolog interpreter: terms, the layered binding           *)
(* environment, unification, clause renaming and the lazy resolver.        *)
(*                                                                         *)
(* Terms are records of one shape, so that = is the structural equality    *)
(* that #[derive(PartialEq)] gives Term and Variable:                      *)
(*   k  the variant ("atom", "int", "var", "cmp")                          *)
(*   n  the atom's name, the functor, or the variable's display name       *)
(*      ("" stands for the Option None of an unnamed variable)             *)
(*   i  the integer's value or the variable's id                           *)
(*   a  the arguments of a compound                                        *)
(* A Bindings value is the chain of frames reachable from an Rc<Bindings>, *)
(* written root first and innermost last; each frame holds the map `bind`  *)
(* and its own `next_variable` cell.                                       *)
(***************************************************************************)
EXTENDS Integers, Sequences, FiniteSets, TLC

VARIABLES
    database,        \* Runner.database: the clauses, in insertion order
    root,            \* Runner.bindings: the root Bindings
    query,           \* the parsed goals of the query being answered
    query_variables, \* run's query_variables
    iter,            \* the answer stream: <<>> or <<iterator>>
    phase,           \* "idle" | "ready" | "pulling" | "ended" | "crashed"
    answers,         \* the Answers delivered by the stream so far
    last_env,        \* <<>> or <<the success environment of the last Answer>>
    trial_log,       \* the clause trials performed by the stream so far
    last_trial,      \* <<>> or <<the last clause trial, with what it renamed and bound>>
    scen,            \* which program text was loaded, which query text is running
    completed,       \* the earlier queries of this Runner, each with its Answers
    ubind,           \* unification bench: the Bindings under test
    ulast,           \* unification bench: the last call and its result
    heap,            \* bindings bench: every Bindings allocated, a frame each
    issued,          \* bindings bench: the ids next() returned, in order
    lib,             \* library bench: <<>> or <<the last call and its result>>
    mode             \* which machine this behaviour runs

vars == <<database, root, query, query_variables, iter, phase, answers,
          last_env, trial_log, last_trial, scen, completed, ubind, ulast,
          heap, issued, lib, mode>>

runner_vars == <<database, root, query, query_variables, iter, phase, answers,
                 last_env, trial_log, last_trial, scen, completed>>

lib_vars == <<heap, issued, lib>>

\* let v = ...; F(v).  A let statement computes its value before the
\* statements that follow it run: the test makes v a value first.
With(v, F(_)) == IF v = v THEN F(v) ELSE F(v)

-----------------------------------------------------------------------------
(* Terms: src/term.rs, src/variable.rs *)

LIST_COMPOUND == "_list"

EMPTY_LIST_COMPOUND == "_emptyList"

atom(s) == [k |-> "atom", n |-> s, i |-> 0, a |-> <<>>]

int(j) == [k |-> "int", n |-> "", i |-> j, a |-> <<>>]

compound(functor, arguments) == [k |-> "cmp", n |-> functor, i |-> 0, a |-> arguments]

var_full(name, j) == [k |-> "var", n |-> name, i |-> j, a |-> <<>>]

empty_list == atom(EMPTY_LIST_COMPOUND)

list(head, tail) == compound(LIST_COMPOUND, <<head, tail>>)

RECURSIVE make_list(_)
make_list(items) ==
    IF items = <<>> THEN empty_list
    ELSE list(Head(items), make_list(Tail(items)))

\* The outcome of a walk that never returns: the recursion of instantiate
\* does not end and the process dies of stack exhaustion.
Diverged == [k |-> "diverged", n |-> "", i |-> 0, a |-> <<>>]

\* #[derive(Eq, PartialEq, Hash)] on struct Variable(isize, Option<String>):
\* both fields are compared.
variable_eq(v1, v2) == v1.i = v2.i /\ v1.n = v2.n

RECURSIVE contains_variables(_)
contains_variables(term) ==
    CASE term.k = "var" -> TRUE
      [] term.k = "cmp" -> \E j \in 1..Len(term.a) : contains_variables(term.a[j])
      [] OTHER -> FALSE

RECURSIVE find_variables_set(_)
find_variables_set(term) ==
    CASE term.k = "var" -> {term}
      [] term.k = "cmp" -> UNION {find_variables_set(term.a[j]) : j \in 1..Len(term.a)}
      [] OTHER -> {}

find_distinct_variables(terms) ==
    UNION {find_variables_set(terms[j]) : j \in 1..Len(terms)}

\* A Display that prints every variable as X<id>.
variable_to_string_by_id(v) == "X" \o ToString(v.i)

\* Display for Variable: the name when there is one, else X<id>.
variable_to_string(v) ==
    IF v.n # "" THEN v.n ELSE "X" \o ToString(v.i)

\* Display for Term, and Term::fmt_list for the arguments of a _list.
RECURSIVE term_to_string(_)
RECURSIVE fmt_list(_)
RECURSIVE fmt_arguments(_, _)

fmt_list(args) ==
    term_to_string(args[1]) \o
    (IF args[2].k = "atom" /\ args[2].n = EMPTY_LIST_COMPOUND THEN ""
     ELSE IF args[2].k = "cmp" /\ args[2].n = LIST_COMPOUND
          THEN "," \o fmt_list(args[2].a)
          ELSE "|" \o term_to_string(args[2]))

\* The for loop over args.iter().enumerate(), from argument j on.
fmt_arguments(args, j) ==
    IF j > Len(args) THEN ""
    ELSE term_to_string(args[j]) \o (IF j < Len(args) THEN ", " ELSE "")
         \o fmt_arguments(args, j + 1)

term_to_string(term) ==
    CASE term.k = "atom" -> IF term.n = EMPTY_LIST_COMPOUND THEN "[]" ELSE term.n
      [] term.k = "int" -> ToString(term.i)
      [] term.k = "var" -> variable_to_string(term)
      [] term.k = "cmp" ->
            IF term.n = LIST_COMPOUND THEN "[" \o fmt_list(term.a) \o "]"
            ELSE term.n \o "(" \o fmt_arguments(term.a, 1) \o ")"

-----------------------------------------------------------------------------
(* Bindings: src/bindings.rs *)

new_frame(counter) == [bind |-> <<>>, next_variable |-> counter]

bindings_new == <<new_frame(0)>>

top(bindings) == bindings[Len(bindings)]

RECURSIVE len(_)
len(bindings) ==
    IF bindings = <<>> THEN 0
    ELSE Cardinality(DOMAIN top(bindings).bind)
         + len(SubSeq(bindings, 1, Len(bindings) - 1))

\* A lookup that searches the frames from the root inwards.
RECURSIVE bound_directly_to_root_first(_, _)
bound_directly_to_root_first(bindings, variable) ==
    IF bindings = <<>> THEN <<>>
    ELSE IF variable.i \in DOMAIN bindings[1].bind
         THEN <<bindings[1].bind[variable.i]>>
         ELSE bound_directly_to_root_first(Tail(bindings), variable)

\* Option<Rc<Term>> as <<>> (None) or <<term>> (Some).
RECURSIVE bound_directly_to(_, _)
bound_directly_to(bindings, variable) ==
    IF bindings = <<>> THEN <<>>
    ELSE IF variable.i \in DOMAIN top(bindings).bind
         THEN <<top(bindings).bind[variable.i]>>
         ELSE bound_directly_to(SubSeq(bindings, 1, Len(bindings) - 1), variable)

\* instantiate, with the variables whose bindings the recursion is inside of:
\* meeting one of them again is a call equal to one still on the stack, so the
\* recursion never returns.
RECURSIVE instantiate_from(_, _, _)
instantiate_from(bindings, term, path) ==
    CASE term.k = "var" ->
            With(bound_directly_to(bindings, term), LAMBDA b :
                IF b = <<>> THEN term
                ELSE IF term.i \in path THEN Diverged
                ELSE instantiate_from(bindings, b[1], path \cup {term.i}))
      [] term.k = "cmp" ->
            With([j \in 1..Len(term.a) |-> instantiate_from(bindings, term.a[j], path)],
                 LAMBDA args :
                IF \E j \in 1..Len(term.a) : args[j] = Diverged THEN Diverged
                ELSE compound(term.n, args))
      [] OTHER -> term

\* An instantiate that follows one binding of each variable and stops.
RECURSIVE instantiate_one_step(_, _)
instantiate_one_step(bindings, term) ==
    CASE term.k = "var" ->
            With(bound_directly_to(bindings, term), LAMBDA b :
                IF b = <<>> THEN term ELSE b[1])
      [] term.k = "cmp" ->
            compound(term.n, [j \in 1..Len(term.a) |-> instantiate_one_step(bindings, term.a[j])])
      [] OTHER -> term

\* An instantiate that follows a variable's bindings and leaves the arguments
\* of a compound it is given as they are.
instantiate_top_level(bindings, term) ==
    IF term.k = "var" THEN instantiate_from(bindings, term, {}) ELSE term

instantiate(bindings, term) == instantiate_from(bindings, term, {})

\* An add that stores nothing.
add_dropped(bindings, v, term) == bindings

\* An add that stores the binding in the root frame of the chain.
add_to_root(bindings, v, term) ==
    [bindings EXCEPT ![1].bind = (v :> term) @@ @]

\* An add that stores the binding in every frame of the chain.
add_to_every_frame(bindings, v, term) ==
    [j \in 1..Len(bindings) |-> [bindings[j] EXCEPT !.bind = (v :> term) @@ @]]

add(bindings, v, term) ==
    [bindings EXCEPT ![Len(bindings)].bind = (v :> term) @@ @]

add_variable(bindings, variable, term) == add(bindings, variable.i, term)

\* A child frame whose counter starts again from zero.
stack_counter_reset(current) == Append(current, new_frame(0))

\* A stack that hands the parent back instead of a child frame.
stack_in_place(current) == current

\* A stack that pushes two frames.
stack_twice(current) ==
    Append(Append(current, new_frame(top(current).next_variable)),
           new_frame(top(current).next_variable))

\* Bindings::stack: the child starts with a copy of the parent's counter value.
stack(current) ==
    Append(current, new_frame(top(current).next_variable))

\* Bindings::next on the innermost frame: the frame's own cell is incremented.
next(bindings) ==
    With(top(bindings).next_variable + 1, LAMBDA n :
        [bindings |-> [bindings EXCEPT ![Len(bindings)].next_variable = n], id |-> n])

-----------------------------------------------------------------------------
(* Unification: src/unify.rs.  A call returns res (the bool), the Bindings   *)
(* as the call left them, and crash when a walk inside it never returned.   *)

unify_result(res, bindings) == [res |-> res, crash |-> FALSE, bindings |-> bindings]

unify_crash(bindings) == [res |-> FALSE, crash |-> TRUE, bindings |-> bindings]

\* A unify_variable that binds term1 without walking it first.
unify_variable_rebinding(term1, term2, bindings) ==
    unify_result(TRUE, add(bindings, term1.i, term2))

RECURSIVE unify(_, _, _)
RECURSIVE unify_variable(_, _, _)
RECURSIVE unify_args(_, _, _, _)

\* A unify without the branch for a variable on the right.
unify_variable_on_the_left_only(term1, term2, bindings) ==
    IF term1.k = "atom" /\ term2.k = "atom" THEN unify_result(term1.n = term2.n, bindings)
    ELSE IF term1.k = "int" /\ term2.k = "int" THEN unify_result(term1.i = term2.i, bindings)
    ELSE IF term1.k = "cmp" /\ term2.k = "cmp" THEN
        IF term1.n = term2.n /\ Len(term1.a) = Len(term2.a)
        THEN unify_args(term1.a, term2.a, 1, bindings)
        ELSE unify_result(FALSE, bindings)
    ELSE IF term1.k = "var" THEN unify_variable(term1, term2, bindings)
    ELSE unify_result(FALSE, bindings)

\* A unify that takes two compounds of one functor for equal.
unify_by_functor(term1, term2, bindings) ==
    IF term1.k = "atom" /\ term2.k = "atom" THEN unify_result(term1.n = term2.n, bindings)
    ELSE IF term1.k = "int" /\ term2.k = "int" THEN unify_result(term1.i = term2.i, bindings)
    ELSE IF term1.k = "cmp" /\ term2.k = "cmp" THEN unify_result(term1.n = term2.n, bindings)
    ELSE IF term1.k = "var" THEN unify_variable(term1, term2, bindings)
    ELSE IF term2.k = "var" THEN unify(term2, term1, bindings)
    ELSE unify_result(FALSE, bindings)

\* A unify_variable with an occurs check: a variable does not unify with a
\* compound that holds it.
unify_variable_with_occurs_check(term1, term2, bindings) ==
    With(instantiate(bindings, term1), LAMBDA t1 :
    With(instantiate(bindings, term2), LAMBDA t2 :
        IF t1 = Diverged \/ t2 = Diverged THEN unify_crash(bindings)
        ELSE IF t1.k = "var" THEN
            IF t2.k = "var" /\ t1.i = t2.i THEN unify_result(TRUE, bindings)
            ELSE IF t2.k = "cmp" /\ t1 \in find_variables_set(t2)
                 THEN unify_result(FALSE, bindings)
            ELSE unify_result(TRUE, add(bindings, t1.i, t2))
        ELSE unify(t1, t2, bindings)))

\* A unify_variable that binds the variable to term2 as it was passed.
unify_variable_binding_raw(term1, term2, bindings) ==
    With(instantiate(bindings, term1), LAMBDA t1 :
    With(instantiate(bindings, term2), LAMBDA t2 :
        IF t1 = Diverged \/ t2 = Diverged THEN unify_crash(bindings)
        ELSE IF t1.k = "var" THEN
            IF t2.k = "var" /\ t1.i = t2.i THEN unify_result(TRUE, bindings)
            ELSE unify_result(TRUE, add(bindings, t1.i, term2))
        ELSE unify(t1, t2, bindings)))

\* The for loop over args1.iter().zip(args2.iter()), from pair j on.
unify_args(args1, args2, j, bindings) ==
    IF j > Len(args1) THEN unify_result(TRUE, bindings)
    ELSE With(unify(args1[j], args2[j], bindings), LAMBDA r :
            IF r.crash \/ ~r.res THEN r
            ELSE unify_args(args1, args2, j + 1, r.bindings))

\* A unify that takes back, when it returns false, the bindings it made.
unify_rolling_back(term1, term2, bindings) ==
    IF term1.k = "cmp" /\ term2.k = "cmp" THEN
        IF term1.n = term2.n /\ Len(term1.a) = Len(term2.a)
        THEN With(unify_args(term1.a, term2.a, 1, bindings), LAMBDA r :
                IF r.crash \/ r.res THEN r ELSE unify_result(FALSE, bindings))
        ELSE unify_result(FALSE, bindings)
    ELSE IF term1.k = "atom" /\ term2.k = "atom" THEN unify_result(term1.n = term2.n, bindings)
    ELSE IF term1.k = "int" /\ term2.k = "int" THEN unify_result(term1.i = term2.i, bindings)
    ELSE IF term1.k = "var" THEN unify_variable(term1, term2, bindings)
    ELSE IF term2.k = "var" THEN unify(term2, term1, bindings)
    ELSE unify_result(FALSE, bindings)

unify(term1, term2, bindings) ==
    IF term1.k = "atom" /\ term2.k = "atom" THEN unify_result(term1.n = term2.n, bindings)
    ELSE IF term1.k = "int" /\ term2.k = "int" THEN unify_result(term1.i = term2.i, bindings)
    ELSE IF term1.k = "cmp" /\ term2.k = "cmp" THEN
        IF term1.n = term2.n /\ Len(term1.a) = Len(term2.a)
        THEN unify_args(term1.a, term2.a, 1, bindings)
        ELSE unify_result(FALSE, bindings)
    ELSE IF term1.k = "var" THEN unify_variable(term1, term2, bindings)
    ELSE IF term2.k = "var" THEN unify(term2, term1, bindings)
    ELSE unify_result(FALSE, bindings)

unify_variable(term1, term2, bindings) ==
    With(instantiate(bindings, term1), LAMBDA t1 :
    With(instantiate(bindings, term2), LAMBDA t2 :
        IF t1 = Diverged \/ t2 = Diverged THEN unify_crash(bindings)
        ELSE IF t1.k = "var" THEN
            IF t2.k = "var" /\ t1.i = t2.i THEN unify_result(TRUE, bindings)
            ELSE unify_result(TRUE, add(bindings, t1.i, t2))
        ELSE unify(t1, t2, bindings)))

-----------------------------------------------------------------------------
(* Clauses: src/clause.rs *)

rule(head, body) ==
    [head |-> head, body |-> body,
     contains_variables |-> contains_variables(head)
                            \/ \E j \in 1..Len(body) : contains_variables(body[j])]

fact(head) ==
    [head |-> head, body |-> <<>>, contains_variables |-> contains_variables(head)]

-----------------------------------------------------------------------------
(* Renaming: src/substitution.rs.  A Substitution holds variables_source,   *)
(* the Bindings whose counter hands out the fresh ids, and substitutions,   *)
(* its own scratch Bindings from original id to fresh variable.             *)

substitution_new(variables_source) ==
    [variables_source |-> variables_source, substitutions |-> bindings_new]

\* Term::var_unnamed(bindings): Variable(bindings.next(), None)
var_unnamed(bindings) ==
    With(next(bindings), LAMBDA n : [bindings |-> n.bindings, term |-> var_full("", n.id)])

RECURSIVE substitute_new_vars(_, _)
RECURSIVE substitute_new_vars_args(_, _, _, _)

\* args.iter().map(|arg| self.substitute_new_vars(arg)).collect(), from j on.
substitute_new_vars_args(self, args, j, done) ==
    IF j > Len(args) THEN [self |-> self, terms |-> done]
    ELSE With(substitute_new_vars(self, args[j]), LAMBDA r :
            substitute_new_vars_args(r.self, args, j + 1, Append(done, r.term)))

substitute_new_vars(self, term) ==
    CASE term.k = "var" ->
            With(bound_directly_to(self.substitutions, term), LAMBDA b :
                IF b = <<>> THEN
                    With(var_unnamed(self.variables_source), LAMBDA nv :
                        [self |-> [variables_source |-> nv.bindings,
                                   substitutions |-> add_variable(self.substitutions, term, nv.term)],
                         term |-> nv.term])
                ELSE [self |-> self, term |-> b[1]])
      [] term.k = "cmp" ->
            With(substitute_new_vars_args(self, term.a, 1, <<>>), LAMBDA r :
                [self |-> r.self, term |-> compound(term.n, r.terms)])
      [] OTHER -> [self |-> self, term |-> term]

\* A map that hands every term back as it is.
map_identity(self, term) == [self |-> self, term |-> term]

map(self, term) ==
    IF contains_variables(term) THEN substitute_new_vars(self, term)
    ELSE [self |-> self, term |-> term]

RECURSIVE map_body(_, _, _, _)
map_body(self, body, j, done) ==
    IF j > Len(body) THEN [self |-> self, terms |-> done]
    ELSE With(map(self, body[j]), LAMBDA r :
            map_body(r.self, body, j + 1, Append(done, r.term)))

map_clause(self, clause) ==
    With(map(self, clause.head), LAMBDA h :
    With(map_body(h.self, clause.body, 1, <<>>), LAMBDA b :
        [self |-> b.self, clause |-> rule(h.term, b.terms)]))

-----------------------------------------------------------------------------
(* Tokens (src/lex.rs, enum Lex) and the parser: src/static_context.rs,      *)
(* src/parse_term.rs, src/parse_clauses.rs.  A program or query text is its *)
(* token sequence; the Peekable token iterator is the position p of the     *)
(* next token.                                                              *)

Lex_Atom(s) == [t |-> "Atom", s |-> s, j |-> 0]

Lex_Variable(s) == [t |-> "Variable", s |-> s, j |-> 0]

Lex_Integer(j) == [t |-> "Integer", s |-> "", j |-> j]

Lex_Left == [t |-> "Left", s |-> "", j |-> 0]

Lex_Right == [t |-> "Right", s |-> "", j |-> 0]

Lex_LeftSquare == [t |-> "LeftSquare", s |-> "", j |-> 0]

Lex_RightSquare == [t |-> "RightSquare", s |-> "", j |-> 0]

Lex_FullStop == [t |-> "FullStop", s |-> "", j |-> 0]

Lex_Implies == [t |-> "Implies", s |-> "", j |-> 0]

Lex_Query == [t |-> "Query", s |-> "", j |-> 0]

Lex_Comma == [t |-> "Comma", s |-> "", j |-> 0]

Lex_Bar == [t |-> "Bar", s |-> "", j |-> 0]

Lex_String(s) == [t |-> "String", s |-> s, j |-> 0]

\* Lex::Float(f64): the literal's digits stand for the value.
Lex_Float(s) == [t |-> "Float", s |-> s, j |-> 0]

Lex_Quote == [t |-> "Quote", s |-> "", j |-> 0]

Lex_True == [t |-> "True", s |-> "", j |-> 0]

-----------------------------------------------------------------------------
(* The lexer: src/lex.rs.  A source text is the sequence of its characters, *)
(* each a string of length one; chars.next() is the position p.             *)

digit_chars == <<"0", "1", "2", "3", "4", "5", "6", "7", "8", "9">>

\* char::is_ascii_digit
is_ascii_digit(ch) == \E j \in 1..Len(digit_chars) : digit_chars[j] = ch

\* char::is_uppercase, on ASCII letters
is_uppercase(ch) ==
    ch \in {"A", "B", "C", "D", "E", "F", "G", "H", "I", "J", "K", "L", "M",
            "N", "O", "P", "Q", "R", "S", "T", "U", "V", "W", "X", "Y", "Z"}

\* char::is_alphanumeric, on ASCII
is_alphanumeric(ch) ==
    \/ is_uppercase(ch)
    \/ is_ascii_digit(ch)
    \/ ch \in {"a", "b", "c", "d", "e", "f", "g", "h", "i", "j", "k", "l", "m",
               "n", "o", "p", "q", "r", "s", "t", "u", "v", "w", "x", "y", "z"}

\* String::push of each character in turn.
RECURSIVE string_of(_)
string_of(chars) ==
    IF chars = <<>> THEN "" ELSE Head(chars) \o string_of(Tail(chars))

\* str::parse::<isize>() of a string of digits: Err when the value does not
\* fit in 64 bits (more digits than isize::MAX has, or as many and greater).
isize_max_digits ==
    <<"9", "2", "2", "3", "3", "7", "2", "0", "3", "6", "8", "5", "4", "7", "7", "5", "8", "0", "7">>

RECURSIVE strip_zeros(_)
strip_zeros(digits) ==
    IF Len(digits) > 1 /\ Head(digits) = "0" THEN strip_zeros(Tail(digits)) ELSE digits

digit_value(ch) == (CHOOSE j \in 1..Len(digit_chars) : digit_chars[j] = ch) - 1

RECURSIVE digits_greater(_, _)
digits_greater(d1, d2) ==
    IF d1 = <<>> THEN FALSE
    ELSE IF digit_value(Head(d1)) # digit_value(Head(d2))
         THEN digit_value(Head(d1)) > digit_value(Head(d2))
         ELSE digits_greater(Tail(d1), Tail(d2))

fits_isize(digits) ==
    With(strip_zeros(digits), LAMBDA d :
        \/ Len(d) < Len(isize_max_digits)
        \/ Len(d) = Len(isize_max_digits) /\ ~digits_greater(d, isize_max_digits))

RECURSIVE digits_value(_, _)
digits_value(digits, acc) ==
    IF digits = <<>> THEN acc
    ELSE digits_value(Tail(digits), acc * 10 + digit_value(Head(digits)))

\* parse_number: f64's parse takes digits with one dot among them (the
\* string starts with a digit) and rejects a second dot.
parse_number(digit_string) ==
    IF \E j \in 1..Len(digit_string) : digit_string[j] = "."
    THEN IF Cardinality({j \in 1..Len(digit_string) : digit_string[j] = "."}) = 1
         THEN [ok |-> TRUE, token |-> Lex_Float(string_of(digit_string))]
         ELSE [ok |-> FALSE, token |-> Lex_Atom("Invalid float")]
    ELSE IF fits_isize(digit_string)
         THEN [ok |-> TRUE, token |-> Lex_Integer(digits_value(digit_string, 0))]
         ELSE [ok |-> FALSE, token |-> Lex_Atom("Invalid int")]

\* The inner while loops: the position of the first character from p on that
\* ends the literal (Len + 1 when the text ends first).
RECURSIVE scan_string(_, _)
scan_string(chars, p) ==
    IF p <= Len(chars) /\ chars[p] # "\"" THEN scan_string(chars, p + 1) ELSE p

RECURSIVE scan_number(_, _)
scan_number(chars, p) ==
    IF p <= Len(chars) /\ (is_ascii_digit(chars[p]) \/ chars[p] = ".")
    THEN scan_number(chars, p + 1) ELSE p

RECURSIVE scan_symbol(_, _)
scan_symbol(chars, p) ==
    IF p <= Len(chars) /\ (is_alphanumeric(chars[p]) \/ chars[p] = "_")
    THEN scan_symbol(chars, p + 1) ELSE p

lex_ok(tokens) == [ok |-> TRUE, tokens |-> tokens]

lex_err == [ok |-> FALSE, tokens |-> <<>>]

\* '<', '>', ':' and '?': one token when `second` follows, else another, and
\* the character that follows is then not consumed.
lex_pair(chars, p, second, both, alone) ==
    IF p + 1 <= Len(chars) /\ chars[p + 1] = second
    THEN [token |-> both, p |-> p + 2]
    ELSE [token |-> alone, p |-> p + 1]

\* The while loop of lex from position p, with the tokens pushed so far.
RECURSIVE lex_from(_, _, _)
lex_from(chars, p, result) ==
    IF p > Len(chars) THEN lex_ok(result)
    ELSE With(chars[p], LAMBDA ch :
        CASE ch \in {" ", "\n"} -> lex_from(chars, p + 1, result)
          [] ch = "(" -> lex_from(chars, p + 1, Append(result, Lex_Left))
          [] ch = ")" -> lex_from(chars, p + 1, Append(result, Lex_Right))
          [] ch = "[" -> lex_from(chars, p + 1, Append(result, Lex_LeftSquare))
          [] ch = "]" -> lex_from(chars, p + 1, Append(result, Lex_RightSquare))
          [] ch = "." -> lex_from(chars, p + 1, Append(result, Lex_FullStop))
          [] ch = "'" -> lex_from(chars, p + 1, Append(result, Lex_Quote))
          [] ch = "<" ->
                With(lex_pair(chars, p, "=", Lex_Atom("<="), Lex_Atom("<")), LAMBDA r :
                    lex_from(chars, r.p, Append(result, r.token)))
          [] ch = ">" ->
                With(lex_pair(chars, p, "=", Lex_Atom(">="), Lex_Atom(">")), LAMBDA r :
                    lex_from(chars, r.p, Append(result, r.token)))
          [] ch = ":" ->
                With(lex_pair(chars, p, "-", Lex_Implies, Lex_Atom("-")), LAMBDA r :
                    lex_from(chars, r.p, Append(result, r.token)))
          [] ch = "?" ->
                With(lex_pair(chars, p, "-", Lex_Query, Lex_Atom("?")), LAMBDA r :
                    lex_from(chars, r.p, Append(result, r.token)))
          [] ch = "\"" ->
                With(scan_string(chars, p + 1), LAMBDA q :
                    lex_from(chars, q + 1,
                             Append(result, Lex_String(string_of(SubSeq(chars, p + 1, q - 1))))))
          [] ch = "," -> lex_from(chars, p + 1, Append(result, Lex_Comma))
          [] ch = "|" -> lex_from(chars, p + 1, Append(result, Lex_Bar))
          [] is_ascii_digit(ch) ->
                With(scan_number(chars, p + 1), LAMBDA q :
                With(parse_number(SubSeq(chars, p, q - 1)), LAMBDA n :
                    IF n.ok THEN lex_from(chars, q, Append(result, n.token))
                    ELSE lex_err))
          [] OTHER ->
                With(scan_symbol(chars, p + 1), LAMBDA q :
                With(string_of(SubSeq(chars, p, q - 1)), LAMBDA symbol :
                    lex_from(chars, q,
                        Append(result,
                               IF is_uppercase(ch) THEN Lex_Variable(symbol)
                               ELSE IF symbol = "true" THEN Lex_True
                               ELSE Lex_Atom(symbol))))))

lex(src) == lex_from(src, 1, <<>>)

-----------------------------------------------------------------------------
(* The parser *)

static_context_new(bindings) == [bindings |-> bindings, variables |-> <<>>]

\* StaticContext::var: the term already made for the name, else a new named
\* variable whose id comes from the context's Bindings.
static_context_var(sc, name) ==
    IF \E j \in 1..Len(sc.variables) : sc.variables[j].n = name
    THEN [sc |-> sc,
          term |-> sc.variables[CHOOSE j \in 1..Len(sc.variables) : sc.variables[j].n = name]]
    ELSE With(next(sc.bindings), LAMBDA n :
         With(var_full(name, n.id), LAMBDA term :
            [sc |-> [bindings |-> n.bindings, variables |-> Append(sc.variables, term)],
             term |-> term]))

parse_ok(term, p, sc) == [ok |-> TRUE, term |-> term, p |-> p, sc |-> sc]

parse_err(p, sc) == [ok |-> FALSE, term |-> atom(""), p |-> p, sc |-> sc]

RECURSIVE parse_term(_, _, _)
RECURSIVE parse_non_empty_list(_, _, _, _)
RECURSIVE parse_arguments_from(_, _, _, _)

\* The loop of parse_non_empty_list, with the items pushed so far.
parse_non_empty_list(tokens, p, sc, items) ==
    With(parse_term(tokens, p, sc), LAMBDA r :
        IF ~r.ok THEN r
        ELSE IF r.p > Len(tokens) THEN parse_err(r.p, r.sc)
        ELSE CASE tokens[r.p].t = "RightSquare" ->
                    parse_ok(make_list(Append(items, r.term)), r.p + 1, r.sc)
               [] tokens[r.p].t = "Comma" ->
                    parse_non_empty_list(tokens, r.p + 1, r.sc, Append(items, r.term))
               [] tokens[r.p].t = "Bar" ->
                    With(parse_term(tokens, r.p + 1, r.sc), LAMBDA tl :
                        IF ~tl.ok THEN tl
                        ELSE IF tl.p <= Len(tokens) /\ tokens[tl.p].t = "RightSquare"
                             THEN parse_ok(list(r.term, tl.term), tl.p + 1, tl.sc)
                             ELSE parse_err(tl.p, tl.sc))
               [] OTHER -> parse_err(r.p + 1, r.sc))

parse_list(tokens, p, sc) ==
    IF p <= Len(tokens) /\ tokens[p].t = "RightSquare"
    THEN parse_ok(empty_list, p + 1, sc)
    ELSE parse_non_empty_list(tokens, p, sc, <<>>)

\* The loop of parse_arguments, with the arguments pushed so far.
parse_arguments_from(tokens, p, sc, arguments) ==
    With(parse_term(tokens, p, sc), LAMBDA r :
        IF ~r.ok THEN [ok |-> FALSE, terms |-> <<>>, p |-> r.p, sc |-> r.sc]
        ELSE IF r.p <= Len(tokens) /\ tokens[r.p].t = "Right"
             THEN [ok |-> TRUE, terms |-> Append(arguments, r.term), p |-> r.p + 1, sc |-> r.sc]
        ELSE IF r.p <= Len(tokens) /\ tokens[r.p].t = "Comma"
             THEN parse_arguments_from(tokens, r.p + 1, r.sc, Append(arguments, r.term))
        ELSE [ok |-> FALSE, terms |-> <<>>, p |-> r.p, sc |-> r.sc])

parse_arguments(tokens, p, sc) ==
    IF p <= Len(tokens) /\ tokens[p].t = "Right"
    THEN [ok |-> TRUE, terms |-> <<>>, p |-> p + 1, sc |-> sc]
    ELSE parse_arguments_from(tokens, p, sc, <<>>)

parse_atom_or_compound(name, tokens, p, sc) ==
    IF p <= Len(tokens) /\ tokens[p].t = "Left"
    THEN With(parse_arguments(tokens, p + 1, sc), LAMBDA r :
            IF r.ok THEN parse_ok(compound(name, r.terms), r.p, r.sc)
            ELSE parse_err(r.p, r.sc))
    ELSE parse_ok(atom(name), p, sc)

parse_term(tokens, p, sc) ==
    IF p > Len(tokens) THEN parse_err(p, sc)
    ELSE CASE tokens[p].t = "Variable" ->
                With(static_context_var(sc, tokens[p].s), LAMBDA v :
                    parse_ok(v.term, p + 1, v.sc))
           [] tokens[p].t = "Integer" -> parse_ok(int(tokens[p].j), p + 1, sc)
           [] tokens[p].t = "Atom" -> parse_atom_or_compound(tokens[p].s, tokens, p + 1, sc)
           [] tokens[p].t = "LeftSquare" -> parse_list(tokens, p + 1, sc)
           [] OTHER -> parse_err(p + 1, sc)

\* term_parser: lex, parse_term, and no token may remain.
term_parser(src, sc) ==
    With(lex(src), LAMBDA l :
        IF ~l.ok THEN parse_err(1, sc)
        ELSE With(parse_term(l.tokens, 1, sc), LAMBDA r :
                IF r.ok /\ r.p <= Len(l.tokens) THEN parse_err(r.p, r.sc) ELSE r))

\* The loop of parse_body, with the goals pushed so far.
RECURSIVE parse_body_from(_, _, _, _)
parse_body_from(tokens, p, sc, body) ==
    With(parse_term(tokens, p, sc), LAMBDA r :
        IF ~r.ok THEN [ok |-> FALSE, terms |-> <<>>, p |-> r.p, sc |-> r.sc]
        ELSE IF r.p <= Len(tokens) /\ tokens[r.p].t = "Comma"
             THEN parse_body_from(tokens, r.p + 1, r.sc, Append(body, r.term))
        ELSE IF r.p <= Len(tokens) /\ tokens[r.p].t = "FullStop"
             THEN [ok |-> TRUE, terms |-> Append(body, r.term), p |-> r.p + 1, sc |-> r.sc]
        ELSE [ok |-> FALSE, terms |-> <<>>, p |-> r.p + 1, sc |-> r.sc])

parse_body(tokens, p, sc) == parse_body_from(tokens, p, sc, <<>>)

\* The loop of parse_clauses, with the clauses pushed so far.
RECURSIVE parse_clauses(_, _, _, _)
parse_clauses(tokens, p, sc, clauses) ==
    IF p > Len(tokens) THEN [ok |-> TRUE, clauses |-> clauses, p |-> p, sc |-> sc]
    ELSE With(parse_term(tokens, p, sc), LAMBDA h :
         IF ~h.ok \/ h.p > Len(tokens)
         THEN [ok |-> FALSE, clauses |-> <<>>, p |-> h.p, sc |-> h.sc]
         ELSE IF tokens[h.p].t = "Implies" THEN
              With(parse_body(tokens, h.p + 1, h.sc), LAMBDA b :
                  IF ~b.ok THEN [ok |-> FALSE, clauses |-> <<>>, p |-> b.p, sc |-> b.sc]
                  ELSE parse_clauses(tokens, b.p, b.sc, Append(clauses, rule(h.term, b.terms))))
         ELSE IF tokens[h.p].t = "FullStop" THEN
              parse_clauses(tokens, h.p + 1, h.sc, Append(clauses, fact(h.term)))
         ELSE [ok |-> FALSE, clauses |-> <<>>, p |-> h.p + 1, sc |-> h.sc])

\* clauses_parser: Ok only when every token was consumed.
clauses_parser(tokens, sc) ==
    With(parse_clauses(tokens, 1, sc, <<>>), LAMBDA r :
        [r EXCEPT !.ok = r.ok /\ r.p > Len(tokens)])

parse_query(tokens, p, sc) ==
    IF p <= Len(tokens) /\ tokens[p].t = "Query"
    THEN parse_body(tokens, p + 1, sc)
    ELSE [ok |-> FALSE, terms |-> <<>>, p |-> p + 1, sc |-> sc]

query_parser(tokens, sc) ==
    With(parse_query(tokens, 1, sc), LAMBDA r :
        [r EXCEPT !.ok = r.ok /\ r.p > Len(tokens)])

-----------------------------------------------------------------------------
(* The resolver: src/run.rs.  run_query and run_body return lazy iterators;  *)
(* an iterator is a record of what its closures captured and of how far it  *)
(* has come:                                                                *)
(*   once       iter::once(bindings), and whether the value was taken       *)
(*   run_query  database.matches().filter_map(..).flat_map(..): idx is the  *)
(*              next clause of the slice iterator, front the flat_map's     *)
(*              current inner iterator (a run_body)                         *)
(*   run_body   run_next.flat_map(..): run_next is the run_query iterator   *)
(*              of body[0], front the current inner run_body of the rest    *)

\* An iter::once of the root frame alone: the frames above it are dropped.
once_popped(bindings) ==
    [k |-> "once", bindings |-> SubSeq(bindings, 1, 1), taken |-> FALSE]

once(bindings) == [k |-> "once", bindings |-> bindings, taken |-> FALSE]

run_query(goal, outer_bindings) ==
    [k |-> "run_query", query |-> goal, outer_bindings |-> outer_bindings,
     idx |-> 1, front |-> <<>>]

\* A run_body that solves the last goal of the body first.
run_body_last_goal_first(body, bindings) ==
    IF body = <<>> THEN once(bindings)
    ELSE [k |-> "run_body", body |-> <<body[Len(body)]>> \o SubSeq(body, 1, Len(body) - 1),
          run_next |-> run_query(body[Len(body)], bindings), front |-> <<>>]

\* A run_body whose iterator for an empty body is empty.
run_body_empty_yields_nothing(body, bindings) ==
    IF body = <<>> THEN [k |-> "once", bindings |-> bindings, taken |-> TRUE]
    ELSE [k |-> "run_body", body |-> body,
          run_next |-> run_query(body[1], bindings), front |-> <<>>]

run_body(body, bindings) ==
    IF body = <<>> THEN once(bindings)
    ELSE [k |-> "run_body", body |-> body,
          run_next |-> run_query(body[1], bindings), front |-> <<>>]

\* A substitute that tries the clause with the variables it was stored with.
substitute_without_renaming(clause, outer_bindings) ==
    [clause |-> clause, bindings |-> outer_bindings]

\* run.rs substitute: the renamed clause, and outer_bindings with the counter
\* its fresh variables moved.
substitute(clause, outer_bindings) ==
    With(map_clause(substitution_new(outer_bindings), clause), LAMBDA r :
        [clause |-> r.clause, bindings |-> r.self.variables_source])

\* A filter_map closure that keeps the clause whatever unify returns.
clause_trial_keeping_all(goal, clause, outer_bindings) ==
    With(stack(outer_bindings), LAMBDA bindings :
    With(substitute(clause, bindings), LAMBDA s :
    With(unify(goal, s.clause.head, s.bindings), LAMBDA u :
        [unified |-> TRUE, crash |-> u.crash, query |-> goal,
         outer_bindings |-> outer_bindings, rewritten_clause |-> s.clause,
         stacked |-> s.bindings, bindings |-> u.bindings])))

\* The filter_map closure of run_query: one clause trial.
clause_trial(goal, clause, outer_bindings) ==
    With(stack(outer_bindings), LAMBDA bindings :
    With(substitute(clause, bindings), LAMBDA s :
    With(unify(goal, s.clause.head, s.bindings), LAMBDA u :
        [unified |-> u.res, crash |-> u.crash, query |-> goal,
         outer_bindings |-> outer_bindings, rewritten_clause |-> s.clause,
         stacked |-> s.bindings, bindings |-> u.bindings])))

event(ev, node, bindings, trial) ==
    [ev |-> ev, node |-> node, bindings |-> bindings, trial |-> trial]

\* Iterator::next on `node`, run up to its first clause trial: "trial" (one
\* clause was tried, the call goes on), "some" (the call returns
\* Some(bindings)), "none" (it returns None) or "crash" (a walk inside the
\* trial's unify never returns).
RECURSIVE advance(_, _)
advance(node, db) ==
    CASE node.k = "once" ->
            IF node.taken THEN event("none", node, <<>>, <<>>)
            ELSE event("some", [node EXCEPT !.taken = TRUE], <<node.bindings>>, <<>>)
      [] node.k = "run_query" ->
            IF node.front # <<>> THEN
                With(advance(node.front[1], db), LAMBDA r :
                    IF r.ev = "none" THEN advance([node EXCEPT !.front = <<>>], db)
                    ELSE [r EXCEPT !.node = [node EXCEPT !.front = <<r.node>>]])
            ELSE IF node.idx > Len(db) THEN event("none", node, <<>>, <<>>)
            ELSE With(clause_trial(node.query, db[node.idx], node.outer_bindings), LAMBDA t :
                 IF t.crash THEN event("crash", node, <<>>, <<("idx" :> node.idx) @@ t>>)
                 ELSE event("trial",
                            [node EXCEPT !.idx = @ + 1,
                                         !.front = IF t.unified
                                                   THEN <<run_body(t.rewritten_clause.body, t.bindings)>>
                                                   ELSE <<>>],
                            <<>>, <<("idx" :> node.idx) @@ t>>))
      [] node.k = "run_body" ->
            IF node.front # <<>> THEN
                With(advance(node.front[1], db), LAMBDA r :
                    IF r.ev = "none" THEN advance([node EXCEPT !.front = <<>>], db)
                    ELSE [r EXCEPT !.node = [node EXCEPT !.front = <<r.node>>]])
            ELSE With(advance(node.run_next, db), LAMBDA r :
                 IF r.ev = "some"
                 THEN advance([node EXCEPT !.run_next = r.node,
                                           !.front = <<run_body(Tail(node.body), r.bindings[1])>>],
                              db)
                 ELSE [r EXCEPT !.node = [node EXCEPT !.run_next = r.node]])

\* An Instantiation that follows one binding only.
resolve_instantiations_one_step(variables, bindings) ==
    {<<variable_to_string(v),
       IF bound_directly_to(bindings, v) = <<>> THEN v ELSE bound_directly_to(bindings, v)[1]>>
        : v \in variables}

\* An Instantiation: the set of (variable.to_string(), instantiate(variable)).
resolve_instantiations(variables, bindings) ==
    {<<variable_to_string(v), instantiate(bindings, v)>> : v \in variables}

\* A run that tries the first clause while it builds the stream.
run_one_trial_ahead(goals, bindings) ==
    [query_variables |-> find_distinct_variables(goals),
     iter |-> advance(run_body(goals, bindings), database).node]

\* run: the query's variables, and the stream before its first pull.
run(goals, bindings) ==
    [query_variables |-> find_distinct_variables(goals),
     iter |-> run_body(goals, bindings)]

-----------------------------------------------------------------------------
(* Program and query texts, as the token sequences lex gives for them.       *)

MaxListLen == 2

MaxQueries == 2

RECURSIVE tok_join(_)
tok_join(parts) ==
    IF parts = <<>> THEN <<>>
    ELSE IF Len(parts) = 1 THEN parts[1]
    ELSE parts[1] \o <<Lex_Comma>> \o tok_join(Tail(parts))

\* f(t1, ..., tn)
tok_call(functor, args) == <<Lex_Atom(functor), Lex_Left>> \o tok_join(args) \o <<Lex_Right>>

\* [t1, ..., tn]
tok_list(items) == <<Lex_LeftSquare>> \o tok_join(items) \o <<Lex_RightSquare>>

\* [h|t]
tok_cons(h, t) == <<Lex_LeftSquare>> \o h \o <<Lex_Bar>> \o t \o <<Lex_RightSquare>>

tok_atom(s) == <<Lex_Atom(s)>>

tok_int(j) == <<Lex_Integer(j)>>

tok_a == tok_atom("a")

tok_b == tok_atom("b")

tok_v(name) == <<Lex_Variable(name)>>

tok_fact(head) == head \o <<Lex_FullStop>>

tok_rule(head, goals) == head \o <<Lex_Implies>> \o tok_join(goals) \o <<Lex_FullStop>>

tok_query(goals) == <<Lex_Query>> \o tok_join(goals) \o <<Lex_FullStop>>

\* [1, ..., n]
tok_ints(n) == tok_list([j \in 1..n |-> tok_int(j)])

src_f == tok_fact(tok_call("f", <<tok_a, tok_a>>)) \o tok_fact(tok_call("f", <<tok_a, tok_b>>))

src_r == tok_rule(tok_call("r", <<tok_v("U"), tok_v("V")>>),
                  <<tok_call("f", <<tok_v("U"), tok_v("V")>>)>>)

src_append ==
    tok_fact(tok_call("append", <<tok_list(<<>>), tok_v("List"), tok_v("List")>>))
    \o tok_rule(tok_call("append", <<tok_cons(tok_v("Head"), tok_v("Tail")), tok_v("List"),
                                     tok_cons(tok_v("Head"), tok_v("Rest"))>>),
                <<tok_call("append", <<tok_v("Tail"), tok_v("List"), tok_v("Rest")>>)>>)

query_append_split(n) ==
    tok_query(<<tok_call("append", <<tok_v("X"), tok_v("Y"), tok_ints(n)>>)>>)

\* Each program text with the query texts put to it.
Programs == <<
    \* the empty database (run.rs tests::no)
    [src |-> <<>>,
     queries |-> << tok_query(<<tok_a>>),
                    tok_query(<<tok_call("f", <<tok_v("X")>>)>>) >>],
    \* a. b. (run.rs tests::double_match_with_variable)
    [src |-> tok_fact(tok_a) \o tok_fact(tok_b),
     queries |-> << tok_query(<<tok_v("X")>>),
                    tok_query(<<tok_a>>),
                    tok_query(<<tok_atom("c")>>),
                    tok_query(<<tok_v("X"), tok_v("Y")>>),
                    tok_query(<<tok_v("X"), tok_v("X")>>) >>],
    \* f(a,a). f(a,b). (run.rs tests::double_match_variable)
    [src |-> src_f,
     queries |-> << tok_query(<<tok_call("f", <<tok_v("X"), tok_v("X")>>)>>),
                    tok_query(<<tok_call("f", <<tok_a, tok_v("X")>>)>>),
                    tok_query(<<tok_call("f", <<tok_v("X"), tok_v("Y")>>)>>),
                    tok_query(<<tok_call("f", <<tok_b, tok_v("X")>>)>>),
                    tok_query(<<tok_call("f", <<tok_a, tok_v("X")>>),
                                tok_call("f", <<tok_v("X"), tok_v("Y")>>)>>) >>],
    \* ground facts over integers and nested compounds, one of them twice
    [src |-> tok_fact(tok_call("p", <<tok_int(1)>>))
             \o tok_fact(tok_call("p", <<tok_call("g", <<tok_a, tok_b>>)>>))
             \o tok_fact(tok_call("p", <<tok_call("g", <<tok_b, tok_b>>)>>))
             \o tok_fact(tok_call("p", <<tok_int(1)>>))
             \o tok_fact(tok_call("q", <<tok_a, tok_int(2)>>)),
     queries |-> << tok_query(<<tok_call("p", <<tok_v("X")>>)>>),
                    tok_query(<<tok_call("p", <<tok_call("g", <<tok_v("X"), tok_v("X")>>)>>)>>),
                    tok_query(<<tok_call("p", <<tok_call("g", <<tok_v("X"), tok_v("Y")>>)>>)>>),
                    tok_query(<<tok_call("p", <<tok_int(1)>>)>>),
                    tok_query(<<tok_call("q", <<tok_v("X"), tok_v("Y")>>)>>),
                    tok_query(<<tok_v("Goal")>>) >>],
    \* f(a,a). f(a,b). r(U,V) :- f(U,V). (runner.rs tests::two_outcomes)
    [src |-> src_f \o src_r,
     queries |-> << tok_query(<<tok_call("r", <<tok_v("Y"), tok_v("X")>>)>>),
                    tok_query(<<tok_call("r", <<tok_a, tok_v("X")>>)>>),
                    tok_query(<<tok_call("r", <<tok_v("X"), tok_v("X")>>),
                                tok_call("f", <<tok_v("X"), tok_v("Y")>>)>>) >>],
    \* f(a,a). r(U,V) :- f(U,V). s(M,N) :- r(M,N). (runner.rs tests::two_step)
    [src |-> tok_fact(tok_call("f", <<tok_a, tok_a>>)) \o src_r
             \o tok_rule(tok_call("s", <<tok_v("M"), tok_v("N")>>),
                         <<tok_call("r", <<tok_v("M"), tok_v("N")>>)>>),
     queries |-> << tok_query(<<tok_call("s", <<tok_v("X"), tok_a>>)>>),
                    tok_query(<<tok_call("s", <<tok_v("X"), tok_b>>)>>) >>],
    \* append (runner.rs tests::list_append, tests::list_append_generator)
    [src |-> src_append,
     queries |-> [n \in 1..(MaxListLen + 1) |-> query_append_split(n - 1)]
                 \o << tok_query(<<tok_call("append", <<tok_ints(1), tok_ints(1), tok_v("Both")>>)>>) >>],
    \* facts that hold variables
    [src |-> tok_fact(tok_call("f", <<tok_v("Z")>>))
             \o tok_fact(tok_call("eq", <<tok_v("W"), tok_v("W")>>))
             \o tok_fact(tok_call("g", <<tok_b, tok_v("Z")>>)),
     queries |-> << tok_query(<<tok_call("f", <<tok_v("X")>>)>>),
                    tok_query(<<tok_call("eq", <<tok_v("X"), tok_v("Y")>>)>>),
                    tok_query(<<tok_call("g", <<tok_v("X"), tok_v("Y")>>), tok_call("f", <<tok_v("X")>>)>>),
                    tok_query(<<tok_call("eq", <<tok_v("X"), tok_call("f", <<tok_v("X")>>)>>)>>) >>]
>>

\* Programs whose rule for p calls p again, each with the queries put to it.
LoopPrograms == <<
    \* p(X) :- p(X).
    [src |-> tok_rule(tok_call("p", <<tok_v("X")>>), <<tok_call("p", <<tok_v("X")>>)>>),
     queries |-> << tok_query(<<tok_call("p", <<tok_a>>)>>),
                    tok_query(<<tok_call("p", <<tok_v("Y")>>)>>),
                    tok_query(<<tok_call("q", <<tok_a>>)>>) >>],
    \* p(X) :- p(X). p(a).
    [src |-> tok_rule(tok_call("p", <<tok_v("X")>>), <<tok_call("p", <<tok_v("X")>>)>>)
             \o tok_fact(tok_call("p", <<tok_a>>)),
     queries |-> << tok_query(<<tok_call("p", <<tok_a>>)>>),
                    tok_query(<<tok_call("p", <<tok_b>>)>>) >>],
    \* p(a). p(X) :- p(X).
    [src |-> tok_fact(tok_call("p", <<tok_a>>))
             \o tok_rule(tok_call("p", <<tok_v("X")>>), <<tok_call("p", <<tok_v("X")>>)>>),
     queries |-> << tok_query(<<tok_call("p", <<tok_a>>)>>),
                    tok_query(<<tok_call("p", <<tok_b>>)>>) >>]
>>

AllPrograms == Programs \o LoopPrograms

-----------------------------------------------------------------------------
(* The Runner (src/runner.rs) and the consumer of its answer stream.         *)

lib_idle == /\ heap = <<>>
            /\ issued = <<>>
            /\ lib = <<>>

bench_idle == /\ ubind = bindings_new
              /\ ulast = <<>>
              /\ lib_idle

\* Runner::new(src)
Init ==
    /\ mode = "runner"
    /\ \E p \in 1..Len(Programs) :
        With(clauses_parser(Programs[p].src, static_context_new(bindings_new)), LAMBDA r :
            /\ r.ok
            /\ database = r.clauses
            /\ root = r.sc.bindings
            /\ scen = [program |-> p, q |-> 0, runs |-> 0, base |-> 0])
    /\ query = <<>>
    /\ query_variables = {}
    /\ iter = <<>>
    /\ phase = "idle"
    /\ answers = <<>>
    /\ last_env = <<>>
    /\ trial_log = <<>>
    /\ last_trial = <<>>
    /\ completed = <<>>
    /\ bench_idle

\* Runner::query(query_src): the query is parsed against the Runner's
\* Bindings and the stream is built; the previous stream has been consumed.
Query ==
    /\ mode = "runner"
    /\ phase \in {"idle", "ended"}
    /\ scen.runs < MaxQueries
    /\ \E q \in 1..Len(AllPrograms[scen.program].queries) :
        With(query_parser(AllPrograms[scen.program].queries[q], static_context_new(root)), LAMBDA r :
        With(run(r.terms, r.sc.bindings), LAMBDA s :
            /\ r.ok
            /\ root' = r.sc.bindings
            /\ query' = r.terms
            /\ query_variables' = s.query_variables
            /\ iter' = <<s.iter>>
            /\ scen' = [scen EXCEPT !.q = q, !.runs = @ + 1, !.base = top(root).next_variable]))
    /\ completed' = IF phase = "ended"
                    THEN Append(completed, [q |-> scen.q, base |-> scen.base, answers |-> answers])
                    ELSE completed
    /\ phase' = "ready"
    /\ answers' = <<>>
    /\ last_env' = <<>>
    /\ trial_log' = <<>>
    /\ last_trial' = <<>>
    /\ UNCHANGED <<database, ubind, ulast, lib_vars, mode>>

\* The consumer calls next() on the stream.
Pull ==
    /\ mode = "runner"
    /\ phase = "ready"
    /\ phase' = "pulling"
    /\ UNCHANGED <<database, root, query, query_variables, iter, answers, last_env,
                   trial_log, last_trial, scen, completed, ubind, ulast, lib_vars, mode>>

\* What the log keeps of a trial; fresh is the first and the last variable id
\* the trial's renaming took from its frame's counter (none when last < first).
trial_entry(t) ==
    [query |-> t.query, idx |-> t.idx, depth |-> Len(t.outer_bindings), unified |-> t.unified,
     fresh |-> <<top(t.outer_bindings).next_variable + 1, top(t.stacked).next_variable>>]

\* Inside the call: the next clause trial.
Trial ==
    /\ mode = "runner"
    /\ phase = "pulling"
    /\ With(advance(iter[1], database), LAMBDA r :
        /\ r.ev = "trial"
        /\ iter' = <<r.node>>
        /\ trial_log' = Append(trial_log, trial_entry(r.trial[1]))
        /\ last_trial' = r.trial)
    /\ UNCHANGED <<database, root, query, query_variables, phase, answers, last_env,
                   scen, completed, ubind, ulast, lib_vars, mode>>

\* The call returns Some(Instantiation): run's map closure walks the query
\* variables in the success environment.
Deliver ==
    /\ mode = "runner"
    /\ phase = "pulling"
    /\ With(advance(iter[1], database), LAMBDA r :
        /\ r.ev = "some"
        /\ With(resolve_instantiations(query_variables, r.bindings[1]), LAMBDA inst :
            /\ \A pair \in inst : pair[2] # Diverged
            /\ answers' = Append(answers, inst))
        /\ iter' = <<r.node>>
        /\ last_env' = r.bindings)
    /\ phase' = "ready"
    /\ UNCHANGED <<database, root, query, query_variables, trial_log, last_trial,
                   scen, completed, ubind, ulast, lib_vars, mode>>

\* The call returns None.
End ==
    /\ mode = "runner"
    /\ phase = "pulling"
    /\ With(advance(iter[1], database), LAMBDA r :
        /\ r.ev = "none"
        /\ iter' = <<r.node>>)
    /\ phase' = "ended"
    /\ UNCHANGED <<database, root, query, query_variables, answers, last_env,
                   trial_log, last_trial, scen, completed, ubind, ulast, lib_vars, mode>>

\* The call never returns: a walk (in a trial's unify, or of a query
\* variable for the Answer) meets a binding cycle and exhausts the stack.
Crash ==
    /\ mode = "runner"
    /\ phase = "pulling"
    /\ With(advance(iter[1], database), LAMBDA r :
        \/ /\ r.ev = "crash"
           /\ last_trial' = r.trial
        \/ /\ r.ev = "some"
           /\ \E pair \in resolve_instantiations(query_variables, r.bindings[1]) :
                pair[2] = Diverged
           /\ last_trial' = last_trial)
    /\ phase' = "crashed"
    /\ UNCHANGED <<database, root, query, query_variables, iter, answers, last_env,
                   trial_log, scen, completed, ubind, ulast, lib_vars, mode>>

Next == Query \/ Pull \/ Trial \/ Deliver \/ End \/ Crash

Spec == Init /\ [][Next]_vars

-----------------------------------------------------------------------------
(* The Runner on the programs of LoopPrograms.  A search that never ends is  *)
(* followed for MaxTrials clause trials.                                     *)

MaxTrials == 12

\* Runner::new(src)
InitLoop ==
    /\ mode = "runner"
    /\ \E p \in (Len(Programs) + 1)..Len(AllPrograms) :
        With(clauses_parser(AllPrograms[p].src, static_context_new(bindings_new)), LAMBDA r :
            /\ r.ok
            /\ database = r.clauses
            /\ root = r.sc.bindings
            /\ scen = [program |-> p, q |-> 0, runs |-> 0, base |-> 0])
    /\ query = <<>>
    /\ query_variables = {}
    /\ iter = <<>>
    /\ phase = "idle"
    /\ answers = <<>>
    /\ last_env = <<>>
    /\ trial_log = <<>>
    /\ last_trial = <<>>
    /\ completed = <<>>
    /\ bench_idle

TrialBounded ==
    /\ Len(trial_log) < MaxTrials
    /\ Trial

NextLoop == Query \/ Pull \/ TrialBounded \/ Deliver \/ End

SpecLoop == InitLoop /\ [][NextLoop]_vars

-----------------------------------------------------------------------------
(* The unification bench: unify called on the terms of the TermBuilder       *)
(* (src/term_builder.rs) as the tests of src/unify.rs call it, each call     *)
(* under the Bindings the calls before it left.                              *)

MaxUnifyCalls == 2

MaxFrames == 2

\* Term::var(name, bindings)
term_var(name, bindings) ==
    With(next(bindings), LAMBDA n : [bindings |-> n.bindings, term |-> var_full(name, n.id)])

\* TermBuilder::new
term_builder ==
    With(term_var("X", bindings_new), LAMBDA x :
    With(term_var("Y", x.bindings), LAMBDA y :
    With(term_var("Z", y.bindings), LAMBDA z :
    With(term_var("U", z.bindings), LAMBDA u :
    With(term_var("V", u.bindings), LAMBDA v :
        [bindings |-> v.bindings,
         a |-> atom("a"), b |-> atom("b"), one |-> int(1),
         x |-> x.term, y |-> y.term, z |-> z.term,
         fa |-> compound("f", <<atom("a")>>),
         fxy |-> compound("f", <<x.term, y.term>>),
         fxx |-> compound("f", <<x.term, x.term>>),
         fxa |-> compound("f", <<x.term, atom("a")>>)])))))

\* The terms the bench draws from: those of the TermBuilder, and f(X),
\* f(Y, X), f(Y, f(a)) built from them.
bench_terms ==
    {term_builder.a, term_builder.b, term_builder.one,
     term_builder.x, term_builder.y,
     term_builder.fa, term_builder.fxy, term_builder.fxx,
     compound("f", <<term_builder.x>>),
     compound("f", <<term_builder.y, term_builder.x>>),
     compound("f", <<term_builder.y, term_builder.fa>>)}

runner_idle ==
    /\ database = <<>>
    /\ root = bindings_new
    /\ query = <<>>
    /\ query_variables = {}
    /\ iter = <<>>
    /\ phase = "idle"
    /\ answers = <<>>
    /\ last_env = <<>>
    /\ trial_log = <<>>
    /\ last_trial = <<>>
    /\ scen = [program |-> 0, q |-> 0, runs |-> 0, base |-> 0]
    /\ completed = <<>>

InitUnify ==
    /\ mode = "bench"
    /\ ubind = term_builder.bindings
    /\ ulast = <<>>
    /\ runner_idle
    /\ lib_idle

unify_calls == IF ulast = <<>> THEN 0 ELSE ulast[1].calls

bench_running == IF ulast = <<>> THEN TRUE ELSE ~ulast[1].crash

\* unify(term1, term2, bindings) under the Bindings as they are.
Unify ==
    /\ mode = "bench"
    /\ bench_running
    /\ unify_calls < MaxUnifyCalls
    /\ \E term1 \in bench_terms, term2 \in bench_terms :
        With(unify(term1, term2, ubind), LAMBDA r :
            /\ ubind' = r.bindings
            /\ ulast' = <<[calls |-> unify_calls + 1, both_ways |-> <<>>,
                           term1 |-> term1, term2 |-> term2,
                           res |-> r.res, crash |-> r.crash]>>)
    /\ UNCHANGED <<runner_vars, lib_vars, mode>>

\* unify(a, b, E1) and unify(b, a, E2), E1 and E2 two new TermBuilders'
\* Bindings: ubind becomes E1, the outcome under E2 is kept in both_ways.
UnifyBothWays ==
    /\ mode = "bench"
    /\ ulast = <<>>
    /\ ubind = term_builder.bindings
    /\ \E a \in bench_terms, b \in bench_terms :
        With(unify(a, b, term_builder.bindings), LAMBDA r1 :
        With(unify(b, a, term_builder.bindings), LAMBDA r2 :
            /\ ubind' = r1.bindings
            /\ ulast' = <<[calls |-> MaxUnifyCalls, both_ways |-> <<r2>>,
                           term1 |-> a, term2 |-> b,
                           res |-> r1.res, crash |-> r1.crash]>>))
    /\ UNCHANGED <<runner_vars, lib_vars, mode>>

\* Bindings::stack(bindings): the calls that follow bind in a new frame.
StackFrame ==
    /\ mode = "bench"
    /\ bench_running
    /\ unify_calls < MaxUnifyCalls
    /\ Len(ubind) < MaxFrames
    /\ ubind' = stack(ubind)
    /\ UNCHANGED <<runner_vars, ulast, lib_vars, mode>>

NextUnify == Unify \/ UnifyBothWays \/ StackFrame

SpecUnify == InitUnify /\ [][NextUnify]_vars

-----------------------------------------------------------------------------
(* Depth-first search written out eagerly (spec.md, solve_goal and           *)
(* solve_body): the whole sequence of what a search of `body` does, each     *)
(* entry a clause trial or a success environment, in the order of clause     *)
(* position at each goal and of goal position in each body.  A trial whose   *)
(* unification never returns ends the sequence.                              *)

RefTrial(t, idx) == [ev |-> "trial", entry |-> trial_entry(("idx" :> idx) @@ t), bindings |-> <<>>]

RefSome(bindings) == [ev |-> "some", entry |-> <<>>, bindings |-> <<bindings>>]

RefCrash == [ev |-> "crash", entry |-> <<>>, bindings |-> <<>>]

RefCrashed(events) == events # <<>> /\ events[Len(events)].ev = "crash"

RECURSIVE RefBody(_, _, _)
RECURSIVE RefGoal(_, _, _, _)
RECURSIVE RefRest(_, _, _, _)

\* The events of `events` from position j on, each success environment
\* replaced by the search of `rest` under it.
RefRest(events, j, rest, db) ==
    IF j > Len(events) THEN <<>>
    ELSE IF events[j].ev = "some"
         THEN With(RefBody(rest, events[j].bindings[1], db), LAMBDA inner :
                IF RefCrashed(inner) THEN inner
                ELSE inner \o RefRest(events, j + 1, rest, db))
         ELSE <<events[j]>> \o RefRest(events, j + 1, rest, db)

RefGoal(goal, outer_bindings, db, idx) ==
    IF idx > Len(db) THEN <<>>
    ELSE With(clause_trial(goal, db[idx], outer_bindings), LAMBDA t :
            IF t.crash THEN <<RefCrash>>
            ELSE IF ~t.unified
                 THEN <<RefTrial(t, idx)>> \o RefGoal(goal, outer_bindings, db, idx + 1)
                 ELSE With(RefBody(t.rewritten_clause.body, t.bindings, db), LAMBDA inner :
                        IF RefCrashed(inner) THEN <<RefTrial(t, idx)>> \o inner
                        ELSE <<RefTrial(t, idx)>> \o inner
                             \o RefGoal(goal, outer_bindings, db, idx + 1)))

RefBody(body, bindings, db) ==
    IF body = <<>> THEN <<RefSome(bindings)>>
    ELSE RefRest(RefGoal(body[1], bindings, db, 1), 1, Tail(body), db)

\* The search of the query being answered.
Ref == RefBody(query, root, database)

RefPositions(events, ev) == {j \in 1..Len(events) : events[j].ev = ev}

\* The position in `events` of the n-th success (0 when n = 0).
RefSuccessAt(events, n) ==
    IF n = 0 THEN 0
    ELSE CHOOSE j \in RefPositions(events, "some") :
            Cardinality({h \in RefPositions(events, "some") : h <= j}) = n

SelectEv(events, ev) == SelectSeq(events, LAMBDA e : e.ev = ev)

RefAnswers(events) ==
    With(SelectEv(events, "some"), LAMBDA somes :
        [j \in 1..Len(somes) |->
            resolve_instantiations(query_variables, somes[j].bindings[1])])

RefTrials(events) ==
    With(SelectEv(events, "trial"), LAMBDA trials :
        [j \in 1..Len(trials) |-> trials[j].entry])

IsPrefix(s, t) == Len(s) <= Len(t) /\ s = SubSeq(t, 1, Len(s))

Started == phase # "idle"

-----------------------------------------------------------------------------
\* C1: the Answers delivered so far are, in order, the Answers of the first
\* successes of the depth-first, left-to-right search of the query (clauses
\* in database order at each goal, body goals left to right), and when the
\* stream has ended they are the Answers of all its successes.
C1_DepthFirstOrder ==
    Started =>
        With(RefAnswers(Ref), LAMBDA expected :
            /\ IsPrefix(answers, expected)
            /\ phase = "ended" => answers = expected)

\* Two goals with two alternatives each: the stream has ended after four
\* Answers, the alternatives of the later goal varying fastest.
C1_Witness ==
    /\ phase = "ended"
    /\ Len(query) = 2
    /\ Len(answers) = 4
    /\ answers[1] # answers[2]
    /\ \E pair \in answers[1] : pair \in answers[2]

\* C2: against a database of ground facts, a query of one goal gets one
\* Answer for each fact that is an instance of the goal under one consistent
\* substitution, in database order, and no Answer for any other fact.
RECURSIVE Match(_, _, _)
RECURSIVE MatchArgs(_, _, _, _)

\* One-way matching of a pattern against a ground term: <<>> when the term
\* is no instance, else <<the substitution, a function on the pattern's variables>>.
Match(pattern, term, sub) ==
    CASE pattern.k = "var" ->
            IF pattern \in DOMAIN sub
            THEN IF sub[pattern] = term THEN <<sub>> ELSE <<>>
            ELSE <<(pattern :> term) @@ sub>>
      [] pattern.k = "cmp" ->
            IF term.k = "cmp" /\ term.n = pattern.n /\ Len(term.a) = Len(pattern.a)
            THEN MatchArgs(pattern.a, term.a, 1, sub)
            ELSE <<>>
      [] OTHER -> IF pattern = term THEN <<sub>> ELSE <<>>

MatchArgs(patterns, terms, j, sub) ==
    IF j > Len(patterns) THEN <<sub>>
    ELSE With(Match(patterns[j], terms[j], sub), LAMBDA m :
            IF m = <<>> THEN <<>> ELSE MatchArgs(patterns, terms, j + 1, m[1]))

GroundFacts ==
    \A j \in 1..Len(database) :
        database[j].body = <<>> /\ ~contains_variables(database[j].head)

InstancesOfGoal ==
    SelectSeq([j \in 1..Len(database) |-> Match(query[1], database[j].head, <<>>)],
              LAMBDA m : m # <<>>)

AnswersByMatching ==
    [j \in 1..Len(InstancesOfGoal) |->
        {<<variable_to_string(v), InstancesOfGoal[j][1][v]>> : v \in query_variables}]

C2_GroundFactInstances ==
    (Started /\ GroundFacts /\ Len(query) = 1) =>
        /\ phase # "crashed"
        /\ IsPrefix(answers, AnswersByMatching)
        /\ phase = "ended" => answers = AnswersByMatching

\* A goal with one variable at two places, two facts with its functor, one
\* of them an instance: the stream has ended after one Answer.
C2_Witness ==
    /\ phase = "ended"
    /\ GroundFacts
    /\ Len(query) = 1
    /\ query[1].k = "cmp"
    /\ Len(query[1].a) = 2
    /\ query[1].a[1].k = "var"
    /\ query[1].a[1] = query[1].a[2]
    /\ Len(database) = 2
    /\ Len(answers) = 1

-----------------------------------------------------------------------------
\* C3: with the two append clauses and the query append(X, Y, Lst), Lst a
\* proper list of n elements, the stream gives n + 1 Answers and then ends;
\* the i-th (i = 0..n) binds X to the first i elements of Lst and Y to the
\* other n - i.
append_database == clauses_parser(src_append, static_context_new(bindings_new)).clauses

RECURSIVE IsProperList(_)
IsProperList(term) ==
    \/ term = empty_list
    \/ /\ term.k = "cmp"
       /\ term.n = LIST_COMPOUND
       /\ Len(term.a) = 2
       /\ IsProperList(term.a[2])

RECURSIVE ListItems(_)
ListItems(term) ==
    IF term = empty_list THEN <<>> ELSE <<term.a[1]>> \o ListItems(term.a[2])

IsAppendSplit ==
    /\ database = append_database
    /\ Len(query) = 1
    /\ query[1].k = "cmp"
    /\ query[1].n = "append"
    /\ Len(query[1].a) = 3
    /\ query[1].a[1].k = "var"
    /\ query[1].a[2].k = "var"
    /\ query[1].a[1] # query[1].a[2]
    /\ ~contains_variables(query[1].a[3])
    /\ IsProperList(query[1].a[3])

Splits(x, y, items) ==
    [j \in 1..(Len(items) + 1) |->
        {<<variable_to_string(x), make_list(SubSeq(items, 1, j - 1))>>,
         <<variable_to_string(y), make_list(SubSeq(items, j, Len(items)))>>}]

C3_AppendSplits ==
    (Started /\ IsAppendSplit) =>
        /\ phase # "crashed"
        /\ IsPrefix(answers, Splits(query[1].a[1], query[1].a[2], ListItems(query[1].a[3])))
        /\ phase = "ended" =>
              answers = Splits(query[1].a[1], query[1].a[2], ListItems(query[1].a[3]))

\* The longest list of the model has been split at every position.
C3_Witness ==
    /\ phase = "ended"
    /\ IsAppendSplit
    /\ Len(ListItems(query[1].a[3])) = MaxListLen
    /\ Len(answers) = MaxListLen + 1

-----------------------------------------------------------------------------
\* C4: an Answer holds exactly one pair for each distinct variable of the
\* query and none for a clause variable; the pair is the variable's printed
\* name and its walk in the success environment; a query without variables
\* gets Answers with no pairs.
QueryText == Programs[scen.program].queries[scen.q]

QueryVariableNames ==
    {QueryText[j].s : j \in {h \in 1..Len(QueryText) : QueryText[h].t = "Variable"}}

QueryVariableNamed(name) == CHOOSE v \in find_distinct_variables(query) : v.n = name

LastAnswer == answers[Len(answers)]

C4_AnswerPairs ==
    (phase = "ready" /\ answers # <<>>) =>
        /\ Cardinality(LastAnswer) = Cardinality(QueryVariableNames)
        /\ {pair[1] : pair \in LastAnswer} = QueryVariableNames
        /\ \A pair \in LastAnswer :
              pair[2] = instantiate(last_env[1], QueryVariableNamed(pair[1]))

\* An Answer of two pairs one of which needed a walk through more than one
\* binding.
C4_Witness ==
    /\ phase = "ready"
    /\ answers # <<>>
    /\ Cardinality(LastAnswer) = 2
    /\ \E v \in query_variables :
          /\ bound_directly_to(last_env[1], v) # <<>>
          /\ bound_directly_to(last_env[1], v)[1] # instantiate(last_env[1], v)

-----------------------------------------------------------------------------
\* C5: when unify returns false for the first goal of the query and the head
\* of every database clause (the empty database included), the stream
\* delivers no Answer: the first pull tries each clause once and reports
\* the end, without a crash.
NoHeadUnifies ==
    \A j \in 1..Len(database) :
        With(substitute(database[j], stack(root)), LAMBDA s :
        With(unify(query[1], s.clause.head, s.bindings), LAMBDA u :
            ~u.res /\ ~u.crash))

C5_NoMatchEndsAtOnce ==
    (Started /\ NoHeadUnifies) =>
        /\ answers = <<>>
        /\ phase \in {"ready", "pulling", "ended"}
        /\ phase = "ready" => trial_log = <<>>
        /\ phase = "ended" => Len(trial_log) = Len(database)

\* The first pull of such a query against a database that is not empty has
\* reported the end.
C5_Witness ==
    /\ phase = "ended"
    /\ NoHeadUnifies
    /\ Len(database) > 1
    /\ Len(trial_log) = Len(database)
    /\ answers = <<>>

-----------------------------------------------------------------------------
\* C6 as stated: when a query text is put again to the same Runner, every
\* Answer of the later run equals the Answer of the earlier run at the same
\* position, names and terms included.
SameTextEarlier == {j \in 1..Len(completed) : completed[j].q = scen.q}

RECURSIVE ShiftIds(_, _)
ShiftIds(term, d) ==
    CASE term.k = "var" -> var_full(term.n, term.i + d)
      [] term.k = "cmp" -> compound(term.n, [j \in 1..Len(term.a) |-> ShiftIds(term.a[j], d)])
      [] OTHER -> term

ShiftAnswer(answer, d) == {<<pair[1], ShiftIds(pair[2], d)>> : pair \in answer}

-----------------------------------------------------------------------------
\* C7: no clause is tried before the first pull or between a delivery and
\* the next pull; when the k-th Answer has been delivered the clause trials
\* performed are exactly those of the depth-first search up to its k-th
\* success, and at the end of the stream those of the whole search.
TrialsUpToSuccess(events, n) == RefTrials(SubSeq(events, 1, RefSuccessAt(events, n)))

C7_Lazy ==
    Started =>
        With(Ref, LAMBDA events :
            /\ phase = "ready" => trial_log = TrialsUpToSuccess(events, Len(answers))
            /\ phase = "pulling" =>
                  /\ IsPrefix(TrialsUpToSuccess(events, Len(answers)), trial_log)
                  /\ IsPrefix(trial_log, RefTrials(events))
                  /\ Cardinality(RefPositions(events, "some")) > Len(answers) =>
                        IsPrefix(trial_log, TrialsUpToSuccess(events, Len(answers) + 1))
            /\ phase = "ended" => trial_log = RefTrials(events))

\* One Answer has been delivered, and the search has clauses left to try
\* that have not been tried.
C7_Witness ==
    /\ phase = "ready"
    /\ Len(answers) = 1
    /\ trial_log # <<>>
    /\ Len(trial_log) < Len(RefTrials(Ref))
    /\ trial_log = TrialsUpToSuccess(Ref, 1)

-----------------------------------------------------------------------------
\* C8: at every clause trial the variable ids of the renamed clause are
\* disjoint from the ids in the goal and in the environment chain of the
\* trial (the keys and the bound terms of every frame down to the root), and
\* every variable of the renamed clause is unbound when unify starts.
ids(term) == {v.i : v \in find_variables_set(term)}

clause_ids(clause) ==
    ids(clause.head) \cup UNION {ids(clause.body[j]) : j \in 1..Len(clause.body)}

frame_ids(frame) ==
    DOMAIN frame.bind \cup UNION {ids(frame.bind[id]) : id \in DOMAIN frame.bind}

chain_ids(bindings) == UNION {frame_ids(bindings[j]) : j \in 1..Len(bindings)}

C8_Freshness ==
    last_trial # <<>> =>
        /\ clause_ids(last_trial[1].rewritten_clause)
             \cap (ids(last_trial[1].query) \cup chain_ids(last_trial[1].outer_bindings)) = {}
        /\ last_trial[1].rewritten_clause.contains_variables =>
              \A id \in clause_ids(last_trial[1].rewritten_clause) :
                    bound_directly_to(last_trial[1].stacked, var_full("", id)) = <<>>

\* A clause with several variables was renamed for a goal that holds a
\* variable, two frames or more below, with bindings in the chain.
C8_Witness ==
    /\ last_trial # <<>>
    /\ Cardinality(clause_ids(last_trial[1].rewritten_clause)) >= 3
    /\ ids(last_trial[1].query) # {}
    /\ Len(last_trial[1].outer_bindings) >= 3
    /\ Cardinality(chain_ids(last_trial[1].outer_bindings)) >= 4

-----------------------------------------------------------------------------
\* C9 as stated: when unify(t1, t2, env) has returned true, walk(t1) and
\* walk(t2) under env are structurally equal (each walk returns a term, and
\* the two terms are equal).
UnifyReturnedTrue == ulast # <<>> /\ ulast[1].res

WalkReturns(bindings, term) == instantiate(bindings, term) # Diverged

C9_WalksEqualAfterSuccess ==
    UnifyReturnedTrue =>
        /\ WalkReturns(ubind, ulast[1].term1)
        /\ WalkReturns(ubind, ulast[1].term2)
        /\ instantiate(ubind, ulast[1].term1) = instantiate(ubind, ulast[1].term2)

\* C9, amended: when unify(t1, t2, env) has returned true and the walks of
\* t1 and t2 return (the call made no binding cycle, which unify does not
\* refuse), walk(t1) and walk(t2) under env are structurally equal.
C9_WalksEqualWhereTheyReturn ==
    (/\ UnifyReturnedTrue
     /\ WalkReturns(ubind, ulast[1].term1)
     /\ WalkReturns(ubind, ulast[1].term2)) =>
        instantiate(ubind, ulast[1].term1) = instantiate(ubind, ulast[1].term2)

\* The second call, on two different compounds, returned true under Bindings
\* of two frames that the first call had bound in, and both walks return.
C9_Witness ==
    /\ UnifyReturnedTrue
    /\ ulast[1].calls = 2
    /\ Len(ubind) = 2
    /\ len(ubind) >= 2
    /\ ulast[1].term1.k = "cmp"
    /\ ulast[1].term2.k = "cmp"
    /\ ulast[1].term1 # ulast[1].term2
    /\ WalkReturns(ubind, ulast[1].term1)
    /\ instantiate(ubind, ulast[1].term1) = instantiate(ubind, ulast[1].term2)

-----------------------------------------------------------------------------
\* C10 as stated: unify(a, b, E1) returns true iff unify(b, a, E2) does, E1
\* and E2 new empty environments, and for every variable v of a or b
\* walk(v) under E1 and walk(v) under E2 are structurally equal.
BothWays == ulast # <<>> /\ ulast[1].both_ways # <<>>

E2 == ulast[1].both_ways[1].bindings

VariablesOfBoth == find_distinct_variables(<<ulast[1].term1, ulast[1].term2>>)

C10_SymmetricWithEqualWalks ==
    BothWays =>
        /\ ulast[1].res <=> ulast[1].both_ways[1].res
        /\ \A v \in VariablesOfBoth :
              /\ WalkReturns(ubind, v)
              /\ WalkReturns(E2, v)
              /\ instantiate(ubind, v) = instantiate(E2, v)

\* The term with each variable replaced by its image under pi.
RECURSIVE Renamed(_, _)
Renamed(term, pi) ==
    CASE term.k = "var" -> IF term \in DOMAIN pi THEN pi[term] ELSE term
      [] term.k = "cmp" -> compound(term.n, [j \in 1..Len(term.a) |-> Renamed(term.a[j], pi)])
      [] OTHER -> term

Acyclic(bindings) ==
    \A j \in 1..Len(bindings) : \A id \in DOMAIN bindings[j].bind :
        WalkReturns(bindings, bindings[j].bind[id])

\* C10, amended: where neither call makes a binding cycle, unify(a, b, E1)
\* returns true iff unify(b, a, E2) does, and when they do the walks of the
\* variables of a and b under E1 are those under E2 up to a one-to-one
\* renaming of the variables left unbound (unify(X, Y) binds X to Y, and
\* unify(Y, X) binds Y to X).
C10_SymmetricUpToRenaming ==
    (BothWays /\ Acyclic(ubind) /\ Acyclic(E2)) =>
        /\ ulast[1].res <=> ulast[1].both_ways[1].res
        /\ ulast[1].res =>
              \E pi \in Permutations(VariablesOfBoth) :
                  \A v \in VariablesOfBoth :
                      Renamed(instantiate(ubind, v), pi) = instantiate(E2, v)

\* Both calls returned true on terms with two variables, and the walks of
\* one variable differ between E1 and E2.
C10_Witness ==
    /\ BothWays
    /\ ulast[1].res
    /\ ulast[1].both_ways[1].res
    /\ Acyclic(ubind)
    /\ Acyclic(E2)
    /\ Cardinality(VariablesOfBoth) = 2
    /\ \E v \in VariablesOfBoth : instantiate(ubind, v) # instantiate(E2, v)

-----------------------------------------------------------------------------
(* The library bench: one call of a library function on arguments drawn      *)
(* from small sets, as the unit tests of the crate call them.                *)

\* Variable-free terms (unify.rs unify_tests::atoms, ints, compounds).
ground_terms ==
    {atom("a"), atom("b"), atom("f"), int(1), int(2),
     compound("f", <<atom("a")>>), compound("f", <<atom("b")>>),
     compound("g", <<atom("a")>>), compound("f", <<int(1)>>),
     compound("f", <<atom("a"), atom("a")>>),
     compound("f", <<atom("a"), atom("b")>>),
     compound("f", <<compound("f", <<atom("a")>>)>>)}

\* Bindings a call can be made under: those of a new TermBuilder, the same
\* with X bound, and a frame stacked on that with Y bound.
lib_envs ==
    {term_builder.bindings,
     add_variable(term_builder.bindings, term_builder.x, term_builder.a),
     add_variable(stack(add_variable(term_builder.bindings, term_builder.x, term_builder.a)),
                  term_builder.y, compound("f", <<term_builder.x>>))}

InitLib ==
    /\ mode = "lib"
    /\ runner_idle
    /\ bench_idle

\* Each behaviour of the bench is one call.
lib_ready == mode = "lib" /\ lib = <<>>

lib_unchanged == UNCHANGED <<runner_vars, ubind, ulast, heap, issued, mode>>

\* unify(term1, term2, bindings) on two variable-free terms.
UnifyGround ==
    /\ lib_ready
    /\ \E bindings \in lib_envs, term1 \in ground_terms, term2 \in ground_terms :
        With(unify(term1, term2, bindings), LAMBDA r :
            lib' = <<[op |-> "unify", bindings |-> bindings,
                      term1 |-> term1, term2 |-> term2, out |-> r]>>)
    /\ lib_unchanged

\* Bindings a walk can be made under: lib_envs, and those one call of unify
\* on two terms of the TermBuilder leaves (chains, and the cycle of X = f(X)).
walk_envs ==
    lib_envs \cup
    {unify(term1, term2, term_builder.bindings).bindings :
        term1 \in bench_terms, term2 \in bench_terms}

\* let w = bindings.instantiate(term); bindings.instantiate(w): when the
\* first walk never returns the second is never made.
Walk ==
    /\ lib_ready
    /\ \E bindings \in walk_envs, term \in bench_terms :
        With(instantiate(bindings, term), LAMBDA w :
            lib' = <<[op |-> "walk", bindings |-> bindings, term |-> term,
                      crash |-> (w = Diverged),
                      out |-> IF w = Diverged THEN <<>> ELSE <<w>>,
                      again |-> IF w = Diverged THEN <<>>
                                ELSE <<instantiate(bindings, w)>>]>>)
    /\ lib_unchanged

\* The terms of the bench, and f(X, a) and f(b, c): two compounds that stop
\* unifying at their second argument.
unify_terms ==
    bench_terms \cup {term_builder.fxa, compound("f", <<term_builder.b, atom("c")>>)}

\* unify(term1, term2, bindings) and then bindings.instantiate(term1): when
\* unify never returns the walk is never made.
UnifyThenWalk ==
    /\ lib_ready
    /\ \E bindings \in walk_envs, term1 \in unify_terms, term2 \in unify_terms :
        With(unify(term1, term2, bindings), LAMBDA r :
            lib' = <<[op |-> "unify_walk", bindings |-> bindings,
                      term1 |-> term1, term2 |-> term2, out |-> r,
                      walk |-> IF r.crash THEN <<>>
                               ELSE <<instantiate(r.bindings, term1)>>]>>)
    /\ lib_unchanged

\* Variables built with Term::var_full and Variable(id, None): one id under
\* two names and under no name, and a second id.
lib_variables ==
    {var_full("X", 1), var_full("Y", 1), var_full("", 1), var_full("X", 2), var_full("", 2)}

\* v1 == v2, and Term::find_distinct_variables(vec![f(v1), v2]).
CollectVariables ==
    /\ lib_ready
    /\ \E v1 \in lib_variables, v2 \in lib_variables :
        lib' = <<[op |-> "variables", v1 |-> v1, v2 |-> v2,
                  equal |-> variable_eq(v1, v2),
                  distinct |-> find_distinct_variables(<<compound("f", <<v1>>), v2>>)]>>
    /\ lib_unchanged

\* The heads of the facts a test database is made of (run.rs tests:
\* Clause::fact(t.a()), and facts over f).
fact_heads == {term_builder.a, term_builder.fa, compound("f", <<term_builder.z>>)}

\* t.database(vec![...]) of one or two facts.
fact_databases ==
    {<<fact(h)>> : h \in fact_heads}
    \cup {<<fact(h1), fact(h2)>> : h1 \in fact_heads, h2 \in fact_heads}

\* Every call of next() on the iterator until it returns None (or a walk
\* inside a trial never returns): what each call did.
RECURSIVE drain(_, _)
drain(node, db) ==
    With(advance(node, db), LAMBDA r :
        With([ev |-> r.ev, bindings |-> r.bindings,
              trial |-> IF r.trial = <<>> THEN <<>>
                        ELSE <<[unified |-> r.trial[1].unified,
                                body |-> r.trial[1].rewritten_clause.body,
                                bindings |-> r.trial[1].bindings]>>],
             LAMBDA e :
                IF r.ev \in {"none", "crash"} THEN <<e>>
                ELSE <<e>> \o drain(r.node, db)))

\* run_body(body, database, bindings) with an empty body or one goal, against
\* a database of facts, pulled until it ends.
RunBody ==
    /\ lib_ready
    /\ \E body \in {<<>>} \cup {<<goal>> : goal \in bench_terms},
          db \in fact_databases, bindings \in lib_envs :
        lib' = <<[op |-> "run_body", body |-> body, db |-> db, bindings |-> bindings,
                  events |-> drain(run_body(body, bindings), db)]>>
    /\ lib_unchanged

MaxSrcLen == 3

lex_alphabet == {"\"", "a", "1", ".", " "}

\* Every text of lex_alphabet of up to n characters.
RECURSIVE texts(_)
texts(n) ==
    IF n = 0 THEN {<<>>}
    ELSE With(texts(n - 1), LAMBDA shorter :
            shorter \cup {Append(t, ch) : t \in shorter, ch \in lex_alphabet})

\* lex(src)
LexSrc ==
    /\ lib_ready
    /\ \E src \in texts(MaxSrcLen) :
        lib' = <<[op |-> "lex", src |-> src, out |-> lex(src)]>>
    /\ lib_unchanged

MaxItems == 2

\* The texts of list elements and of list tails.
item_texts == {<<"1">>, <<"2">>, <<"a">>, <<"[", "1", "]">>}

tail_texts == {<<"X">>, <<"a">>}

RECURSIVE join_texts(_)
join_texts(parts) ==
    IF Len(parts) = 1 THEN parts[1]
    ELSE parts[1] \o <<",">> \o join_texts(Tail(parts))

\* [t1,...,tk] and [t1,...,tk|T]
list_text(items, tail) ==
    <<"[">> \o join_texts(items) \o (IF tail = <<>> THEN <<>> ELSE <<"|">> \o tail[1]) \o <<"]">>

\* term_parser(src, StaticContext::new_all()) and then to_string() of the
\* term (parse_term.rs tests; term.rs test_display).
ParsePrint ==
    /\ lib_ready
    /\ \E k \in 1..MaxItems :
       \E items \in [1..k -> item_texts], tail \in {<<>>} \cup {<<t>> : t \in tail_texts} :
        With(term_parser(list_text(items, tail), static_context_new(bindings_new)), LAMBDA r :
            lib' = <<[op |-> "parse_print", items |-> items, tail |-> tail,
                      src |-> list_text(items, tail),
                      out |-> [ok |-> r.ok, term |-> r.term,
                               printed |-> IF r.ok THEN term_to_string(r.term) ELSE ""]]>>)
    /\ lib_unchanged

\* let n = bindings.len(); bindings.add_variable(variable, term);
\* bindings.len() (bindings.rs variable_binding_tests), on Bindings of one and
\* two frames, for a variable that is or is not a key of the innermost frame.
Insert ==
    /\ lib_ready
    /\ \E bindings \in walk_envs, variable \in {term_builder.x, term_builder.y},
          term \in {term_builder.a, term_builder.fa, term_builder.y} :
        With(add_variable(bindings, variable, term), LAMBDA out :
            lib' = <<[op |-> "insert", bindings |-> bindings, variable |-> variable,
                      term |-> term, out |-> out,
                      len_before |-> len(bindings), len_after |-> len(out)]>>)
    /\ lib_unchanged

NextLib ==
    UnifyGround \/ Walk \/ UnifyThenWalk \/ CollectVariables \/ RunBody
    \/ LexSrc \/ ParsePrint \/ Insert

SpecLib == InitLib /\ [][NextLib]_vars

-----------------------------------------------------------------------------
(* The bindings bench: Bindings allocated by Bindings::new and                *)
(* Bindings::stack, each an Rc that the test keeps and calls through.  A      *)
(* frame of the heap is a Bindings struct: bind, stack (0 for None, else the *)
(* parent's place in the heap) and its own next_variable cell.               *)

MaxHeapFrames == 3

MaxBindings == 3

MaxIds == 3

\* The Rc<Bindings> at place f as the chain of frames reachable from it.
RECURSIVE chain_of(_, _)
chain_of(h, f) ==
    IF h[f].stack = 0
    THEN <<[bind |-> h[f].bind, next_variable |-> h[f].next_variable]>>
    ELSE Append(chain_of(h, h[f].stack),
                [bind |-> h[f].bind, next_variable |-> h[f].next_variable])

\* What a call through the Rc at place f left in the struct at place f.
heap_frame(h, f, bindings) ==
    [bind |-> top(bindings).bind, stack |-> h[f].stack,
     next_variable |-> top(bindings).next_variable]

\* The variables and terms of variable_binding_tests.
heap_variables == {var_full("X", 1), var_full("Y", 2)}

heap_terms == {atom("a"), var_full("Y", 2)}

heap_bindings_count == len([f \in 1..Len(heap) |-> [bind |-> heap[f].bind]])

\* Bindings::new()
InitHeap ==
    /\ mode = "heap"
    /\ heap = <<[bind |-> <<>>, stack |-> 0, next_variable |-> 0]>>
    /\ issued = <<>>
    /\ lib = <<>>
    /\ ubind = bindings_new
    /\ ulast = <<>>
    /\ runner_idle

heap_ready == mode = "heap" /\ lib = <<>>

\* Bindings::stack(parent)
HeapStack ==
    /\ heap_ready
    /\ Len(heap) < MaxHeapFrames
    /\ \E parent \in 1..Len(heap) :
        With(stack(chain_of(heap, parent)), LAMBDA child :
            heap' = Append(heap, [bind |-> top(child).bind, stack |-> parent,
                                  next_variable |-> top(child).next_variable]))
    /\ UNCHANGED <<runner_vars, ubind, ulast, issued, lib, mode>>

\* bindings.add_variable(variable, term)
HeapAdd ==
    /\ heap_ready
    /\ heap_bindings_count < MaxBindings
    /\ \E f \in 1..Len(heap), variable \in heap_variables, term \in heap_terms :
        heap' = [heap EXCEPT ![f] =
                    heap_frame(heap, f, add_variable(chain_of(heap, f), variable, term))]
    /\ UNCHANGED <<runner_vars, ubind, ulast, issued, lib, mode>>

\* bindings.bound_directly_to(variable): the test ends with what it returned.
Lookup ==
    /\ heap_ready
    /\ \E f \in 1..Len(heap), variable \in heap_variables :
        lib' = <<[op |-> "lookup", frame |-> f, variable |-> variable,
                  out |-> bound_directly_to(chain_of(heap, f), variable)]>>
    /\ UNCHANGED <<runner_vars, ubind, ulast, heap, issued, mode>>

\* bindings.next()
HeapNext ==
    /\ heap_ready
    /\ Len(issued) < MaxIds
    /\ \E f \in 1..Len(heap) :
        With(next(chain_of(heap, f)), LAMBDA n :
            /\ heap' = [heap EXCEPT ![f] = heap_frame(heap, f, n.bindings)]
            /\ issued' = Append(issued, [frame |-> f, id |-> n.id]))
    /\ UNCHANGED <<runner_vars, ubind, ulast, lib, mode>>

NextLookup == HeapStack \/ HeapAdd \/ Lookup

SpecLookup == InitHeap /\ [][NextLookup]_vars

NextCounter == HeapStack \/ HeapNext

SpecCounter == InitHeap /\ [][NextCounter]_vars

-----------------------------------------------------------------------------
(* C11 *)

LibCalled(op) == IF lib = <<>> THEN FALSE ELSE lib[1].op = op

\* Structural equality as the claim spells it out.
RECURSIVE StructurallyEqual(_, _)
StructurallyEqual(t1, t2) ==
    CASE t1.k = "atom" /\ t2.k = "atom" -> t1.n = t2.n
      [] t1.k = "int" /\ t2.k = "int" -> t1.i = t2.i
      [] t1.k = "cmp" /\ t2.k = "cmp" ->
            /\ t1.n = t2.n
            /\ Len(t1.a) = Len(t2.a)
            /\ \A j \in 1..Len(t1.a) : StructurallyEqual(t1.a[j], t2.a[j])
      [] OTHER -> FALSE

\* Structural equality of terms that may hold variables: two variables are
\* the same term when their ids are.
RECURSIVE StructurallyEqualTerms(_, _)
StructurallyEqualTerms(t1, t2) ==
    CASE t1.k = "var" /\ t2.k = "var" -> t1.i = t2.i
      [] t1.k = "cmp" /\ t2.k = "cmp" ->
            /\ t1.n = t2.n
            /\ Len(t1.a) = Len(t2.a)
            /\ \A j \in 1..Len(t1.a) : StructurallyEqualTerms(t1.a[j], t2.a[j])
      [] OTHER -> StructurallyEqual(t1, t2)

\* C11: for variable-free terms t1 and t2, unify(t1, t2, env) returns true
\* exactly when t1 and t2 are structurally equal, and whether it returns true
\* or false env holds as many bindings after the call as before it.
C11_GroundUnifyIsEquality ==
    LibCalled("unify") =>
        /\ ~contains_variables(lib[1].term1) /\ ~contains_variables(lib[1].term2)
        /\ ~lib[1].out.crash
        /\ lib[1].out.res = StructurallyEqual(lib[1].term1, lib[1].term2)
        /\ len(lib[1].out.bindings) = len(lib[1].bindings)

\* Two compounds of one functor and one arity whose arguments differ were
\* unified under Bindings that hold bindings in two frames: false.
C11_Witness ==
    /\ LibCalled("unify")
    /\ lib[1].term1 = compound("f", <<atom("a"), atom("a")>>)
    /\ lib[1].term2 = compound("f", <<atom("a"), atom("b")>>)
    /\ Len(lib[1].bindings) = 2
    /\ len(lib[1].bindings) = 2
    /\ ~lib[1].out.res

-----------------------------------------------------------------------------
(* C12 *)

\* C12 as stated: whatever the term and the environment, the walk returns
\* and walking its result again gives a structurally equal term.
C12_WalkIdempotentEverywhere ==
    LibCalled("walk") =>
        /\ ~lib[1].crash
        /\ lib[1].again = lib[1].out

\* C12: under an environment that is not modified in between, when walk(t)
\* returns, walk(walk(t)) returns too and is structurally equal to walk(t).
C12_WalkIdempotentWhereItReturns ==
    (LibCalled("walk") /\ ~lib[1].crash) =>
        /\ lib[1].again # <<>>
        /\ lib[1].again[1] # Diverged
        /\ StructurallyEqualTerms(lib[1].again[1], lib[1].out[1])

\* A walk that followed a chain of two bindings into a compound (its result
\* is not the term it started from), walked again.
C12_Witness ==
    /\ LibCalled("walk")
    /\ ~lib[1].crash
    /\ lib[1].term.k = "var"
    /\ lib[1].out[1].k = "cmp"
    /\ bound_directly_to(lib[1].bindings, lib[1].term)[1].k = "var"
    /\ lib[1].again = lib[1].out

-----------------------------------------------------------------------------
(* C13 *)

\* The frames a lookup through the frame at place f can see, innermost first.
RECURSIVE FramesFrom(_, _)
FramesFrom(h, f) ==
    IF h[f].stack = 0 THEN <<f>> ELSE <<f>> \o FramesFrom(h, h[f].stack)

\* The term stored for v in the first frame of `places` that has v as a key.
StoredInFirst(h, places, v) ==
    IF \E j \in 1..Len(places) : v.i \in DOMAIN h[places[j]].bind
    THEN With(CHOOSE j \in 1..Len(places) :
                /\ v.i \in DOMAIN h[places[j]].bind
                /\ \A l \in 1..(j - 1) : v.i \notin DOMAIN h[places[l]].bind,
              LAMBDA j : <<h[places[j]].bind[v.i]>>)
    ELSE <<>>

\* C13: lookup(v) returns the term stored for v in the innermost frame that
\* has v as a key, searching from the frame it is called through out to the
\* root, and nothing when no such frame has it; the term is the stored one,
\* not dereferenced.
C13_LookupInnermostSingleStep ==
    LibCalled("lookup") =>
        lib[1].out = StoredInFirst(heap, FramesFrom(heap, lib[1].frame), lib[1].variable)

\* X is bound to a in the root and to Y in a child, and Y is bound to a: the
\* lookup of X through the child returned Y.
C13_Witness ==
    /\ LibCalled("lookup")
    /\ lib[1].variable = var_full("X", 1)
    /\ heap[lib[1].frame].stack # 0
    /\ 1 \in DOMAIN heap[lib[1].frame].bind
    /\ 1 \in DOMAIN heap[heap[lib[1].frame].stack].bind
    /\ heap[heap[lib[1].frame].stack].bind[1] = atom("a")
    /\ bound_directly_to(chain_of(heap, lib[1].frame), var_full("Y", 2)) = <<atom("a")>>
    /\ lib[1].out = <<var_full("Y", 2)>>

-----------------------------------------------------------------------------
(* C14 *)

\* C14: a frame made by push(parent) shares the parent's counter, so over
\* any interleaving of id allocations through the parent, the child and
\* other children of the same parent, no id is returned twice.
C14_NoIdReturnedTwice ==
    \A j \in 1..Len(issued), l \in 1..Len(issued) :
        j # l => issued[j].id # issued[l].id

-----------------------------------------------------------------------------
(* C15 *)

\* The term each element or tail text of the bench stands for.
TextTerm(text) ==
    CASE text = <<"1">> -> int(1)
      [] text = <<"2">> -> int(2)
      [] text = <<"a">> -> atom("a")
      [] text = <<"X">> -> var_full("X", 1)
      [] text = <<"[", "1", "]">> -> compound("_list", <<int(1), atom("_emptyList")>>)

\* _list(t1, _list(..., _list(tk, end)))
RECURSIVE ConsChain(_, _)
ConsChain(items, end) ==
    IF items = <<>> THEN end
    ELSE compound("_list", <<TextTerm(Head(items)), ConsChain(Tail(items), end)>>)

\* C15: for every k >= 1, parsing [t1,...,tk|T] yields the cons chain
\* _list(t1, _list(..., _list(tk, T))) that keeps all k elements and printing
\* it gives [t1,...,tk|T] again; [t1,...,tk] parses to the cons chain ending
\* in _emptyList and prints back unchanged.
C15_ListRoundTrip ==
    LibCalled("parse_print") =>
        /\ lib[1].out.ok
        /\ lib[1].out.term =
              ConsChain(lib[1].items,
                        IF lib[1].tail = <<>> THEN atom("_emptyList")
                        ELSE TextTerm(lib[1].tail[1]))
        /\ lib[1].out.printed = string_of(lib[1].src)

-----------------------------------------------------------------------------
(* C16 *)

\* The first clause is p(X) :- p(X) and the query is one goal p(t).
LeftRecursiveRun ==
    /\ database # <<>>
    /\ database[1].body = <<database[1].head>>
    /\ database[1].head.k = "cmp"
    /\ Len(database[1].head.a) = 1
    /\ database[1].head.a[1].k = "var"
    /\ Len(query) = 1
    /\ query[1].k = "cmp"
    /\ query[1].n = database[1].head.n
    /\ Len(query[1].a) = 1

\* C16: with p(X) :- p(X) and the query p(t), no Answer is delivered and no
\* end is reported: a call of next() in progress can only try the rule once
\* more, every trial unifies, and the n-th trial stacks its frame on a chain
\* of n frames, so the depth grows by one with every step.
C16_LeftRecursionLoops ==
    LeftRecursiveRun =>
        /\ answers = <<>>
        /\ phase \in {"ready", "pulling"}
        /\ phase = "pulling" => advance(iter[1], database).ev = "trial"
        /\ \A n \in 1..Len(trial_log) :
            /\ trial_log[n].idx = 1
            /\ trial_log[n].unified
            /\ trial_log[n].depth = n
        /\ last_trial # <<>> => Len(last_trial[1].bindings) = Len(trial_log) + 1

\* ?- p(a). against p(X) :- p(X). after MaxTrials trials, still inside the
\* first call of next().
C16_Witness ==
    /\ LeftRecursiveRun
    /\ Len(database) = 1
    /\ query = <<compound("p", <<atom("a")>>)>>
    /\ Len(trial_log) = MaxTrials
    /\ phase = "pulling"
    /\ Len(last_trial[1].bindings) = MaxTrials + 1

-----------------------------------------------------------------------------
(* C17 *)

\* unify(X, t, env) was called with X unbound in env and t a compound that
\* holds X.
OccursCall ==
    /\ LibCalled("unify_walk")
    /\ lib[1].term1.k = "var"
    /\ bound_directly_to(lib[1].bindings, lib[1].term1) = <<>>
    /\ lib[1].term2.k = "cmp"
    /\ \E v \in find_variables_set(lib[1].term2) : v.i = lib[1].term1.i

\* C17 as stated: the call returns true, X is bound to t, and the walk of X
\* that follows never terminates.
C17_BindsToTheTermItself ==
    OccursCall =>
        /\ ~lib[1].out.crash
        /\ lib[1].out.res
        /\ bound_directly_to(lib[1].out.bindings, lib[1].term1) = <<lib[1].term2>>
        /\ lib[1].walk = <<Diverged>>

\* C17: there is no occurs check.  When the walk of t under env terminates,
\* unify(X, t, env) with X unbound and t a compound that holds X returns
\* true and binds X to the walked t, which still holds X, and the walk of X
\* that follows never terminates.
C17_NoOccursCheck ==
    (OccursCall /\ instantiate(lib[1].bindings, lib[1].term2) # Diverged) =>
        /\ ~lib[1].out.crash
        /\ lib[1].out.res
        /\ bound_directly_to(lib[1].out.bindings, lib[1].term1)
             = <<instantiate(lib[1].bindings, lib[1].term2)>>
        /\ \E v \in find_variables_set(instantiate(lib[1].bindings, lib[1].term2)) :
                v.i = lib[1].term1.i
        /\ lib[1].walk = <<Diverged>>

\* unify(X, f(Y, X), env) with Y bound to a in env: X is bound to f(a, X) and
\* its walk does not terminate.
C17_Witness ==
    /\ OccursCall
    /\ lib[1].term2 = compound("f", <<term_builder.y, term_builder.x>>)
    /\ lib[1].out.res
    /\ bound_directly_to(lib[1].out.bindings, term_builder.x)
         = <<compound("f", <<atom("a"), term_builder.x>>)>>
    /\ lib[1].walk = <<Diverged>>

-----------------------------------------------------------------------------
(* C18 *)

\* A double quote opens a string literal and the next one closes it: with an
\* odd number of them the last literal is not closed before the end.
UnterminatedString(src) ==
    Cardinality({j \in 1..Len(src) : src[j] = "\""}) % 2 = 1

\* The text is one numeric literal with more than one decimal point.
MalformedNumber(src) ==
    /\ src # <<>>
    /\ is_ascii_digit(src[1])
    /\ \A j \in 1..Len(src) : is_ascii_digit(src[j]) \/ src[j] = "."
    /\ Cardinality({j \in 1..Len(src) : src[j] = "."}) > 1

\* C18: for a text with an unterminated string literal, and for a malformed
\* numeric literal, the lexer reports an error to its caller and returns no
\* token list.
C18_LexErrors ==
    (LibCalled("lex") /\ (UnterminatedString(lib[1].src) \/ MalformedNumber(lib[1].src))) =>
        ~lib[1].out.ok

-----------------------------------------------------------------------------
(* C19 *)

\* C19: two variables compare equal exactly when their ids are equal,
\* whatever their display names, and they are one element of a set when they
\* are equal: the distinct variables collected from terms that hold them are
\* as many as there are ids.
C19_EqualByIdOnly ==
    LibCalled("variables") =>
        /\ lib[1].equal <=> (lib[1].v1.i = lib[1].v2.i)
        /\ Cardinality(lib[1].distinct) = Cardinality({lib[1].v1.i, lib[1].v2.i})

-----------------------------------------------------------------------------
(* C20 *)

UnifiedTrials(events) ==
    {n \in 1..Len(events) :
        IF events[n].ev = "trial" THEN events[n].trial[1].unified ELSE FALSE}

Yields(events) == {n \in 1..Len(events) : events[n].ev = "some"}

\* C20: solve_body with an empty goal list yields the given environment once
\* and then ends, with no frame pushed and no binding added; so against a
\* database of facts every trial that unifies is followed by one yield, of
\* the environment the head unification left, and nothing else is yielded.
C20_EmptyBodyYieldsOnce ==
    LibCalled("run_body") =>
        With(lib[1].events, LAMBDA events :
            /\ events[Len(events)].ev = "none"
            /\ lib[1].body = <<>> =>
                /\ Len(events) = 2
                /\ events[1].ev = "some"
                /\ events[1].bindings = <<lib[1].bindings>>
            /\ lib[1].body # <<>> =>
                /\ \A n \in UnifiedTrials(events) :
                    /\ events[n].trial[1].body = <<>>
                    /\ events[n + 1].ev = "some"
                    /\ events[n + 1].bindings = <<events[n].trial[1].bindings>>
                /\ \A n \in Yields(events) : (n - 1) \in UnifiedTrials(events)
                /\ Cardinality(Yields(events)) = Cardinality(UnifiedTrials(events)))

\* The goal f(X) against the facts f(a). f(Z).: both facts unify, and each
\* gave one environment.
C20_Witness ==
    /\ LibCalled("run_body")
    /\ lib[1].body = <<compound("f", <<term_builder.x>>)>>
    /\ lib[1].db = <<fact(term_builder.fa), fact(compound("f", <<term_builder.z>>))>>
    /\ lib[1].bindings = term_builder.bindings
    /\ Cardinality(UnifiedTrials(lib[1].events)) = 2
    /\ Cardinality(Yields(lib[1].events)) = 2

-----------------------------------------------------------------------------
\* C21: a clause trial leaves the frames of the environment it was started
\* from as they were: the trial's frame is pushed empty on top of env, the
\* environment the trial ends with (unified or not) is env, frame for frame,
\* with that one frame on top, the root frame of every trial and of every
\* answer is the Runner's root, and the root holds no binding.
Below(bindings) == SubSeq(bindings, 1, Len(bindings) - 1)

C21_TrialsAreIsolated ==
    /\ root[1].bind = <<>>
    /\ last_env # <<>> => last_env[1][1] = root[1]
    /\ last_trial # <<>> =>
        /\ last_trial[1].outer_bindings[1] = root[1]
        /\ Below(last_trial[1].stacked) = last_trial[1].outer_bindings
        /\ top(last_trial[1].stacked).bind = <<>>
        /\ Below(last_trial[1].bindings) = last_trial[1].outer_bindings

\* A trial below the first goal failed after unify had bound a variable in
\* the trial's frame.
C21_Witness ==
    /\ last_trial # <<>>
    /\ ~last_trial[1].unified
    /\ Len(last_trial[1].outer_bindings) >= 2
    /\ top(last_trial[1].bindings).bind # <<>>

-----------------------------------------------------------------------------
\* C22: over every sequence of unify calls and pushed frames from the empty
\* Bindings of a TermBuilder, no variable id is a key of two frames of the
\* stack, and no call changes or removes a binding that was there before it.
KeysOnce(bindings) ==
    \A j \in 1..Len(bindings) : \A k \in 1..Len(bindings) :
        j # k => DOMAIN bindings[j].bind \cap DOMAIN bindings[k].bind = {}

BindingsKept(before, after) ==
    /\ Len(after) >= Len(before)
    /\ \A j \in 1..Len(before) : \A id \in DOMAIN before[j].bind :
            id \in DOMAIN after[j].bind /\ after[j].bind[id] = before[j].bind[id]

C22_NoKeyTwiceNoOverwrite ==
    [][KeysOnce(ubind') /\ BindingsKept(ubind, ubind')]_vars

\* A second call, made with a variable that an outer frame already binds on
\* one side, returned true and left bindings in both frames.
C22_Witness ==
    /\ mode = "bench"
    /\ ulast # <<>> /\ ulast[1].calls = 2 /\ ulast[1].res
    /\ Len(ubind) = 2
    /\ ubind[1].bind # <<>> /\ ubind[2].bind # <<>>
    /\ \E v \in find_variables_set(ulast[1].term1) \cup find_variables_set(ulast[1].term2) :
            v.i \in DOMAIN ubind[1].bind

-----------------------------------------------------------------------------
\* C23: when unify of two compounds of one functor and arity returns false,
\* it failed at some argument pair i, and the Bindings it leaves hold every
\* binding that was there before the call and every binding the pairs
\* 1..i-1 made: nothing is taken back.
RECURSIVE EnvAfterPairs(_, _, _, _)
EnvAfterPairs(args1, args2, k, bindings) ==
    IF k = 0 THEN bindings
    ELSE unify(args1[k], args2[k], EnvAfterPairs(args1, args2, k - 1, bindings)).bindings

FailsAtPair(args1, args2, i, bindings) ==
    /\ \A k \in 1..(i - 1) :
            unify(args1[k], args2[k], EnvAfterPairs(args1, args2, k - 1, bindings)).res
    /\ ~unify(args1[i], args2[i], EnvAfterPairs(args1, args2, i - 1, bindings)).res

CompoundsFailed ==
    /\ LibCalled("unify_walk")
    /\ lib[1].term1.k = "cmp" /\ lib[1].term2.k = "cmp"
    /\ lib[1].term1.n = lib[1].term2.n /\ Len(lib[1].term1.a) = Len(lib[1].term2.a)
    /\ ~lib[1].out.crash /\ ~lib[1].out.res

C23_NoRollBack ==
    CompoundsFailed =>
        \E i \in 1..Len(lib[1].term1.a) :
            /\ FailsAtPair(lib[1].term1.a, lib[1].term2.a, i, lib[1].bindings)
            /\ BindingsKept(lib[1].bindings, lib[1].out.bindings)
            /\ BindingsKept(EnvAfterPairs(lib[1].term1.a, lib[1].term2.a, i - 1, lib[1].bindings),
                            lib[1].out.bindings)

\* unify(f(X, a), f(b, c)) under empty Bindings returned false, and X is
\* bound to b.
C23_Witness ==
    /\ CompoundsFailed
    /\ lib[1].bindings = term_builder.bindings
    /\ lib[1].term1 = term_builder.fxa
    /\ lib[1].term2 = compound("f", <<term_builder.b, atom("c")>>)
    /\ bound_directly_to(lib[1].out.bindings, term_builder.x) = <<term_builder.b>>

-----------------------------------------------------------------------------
\* C24 as stated: over the clause trials of one query, in the order they are
\* made, no variable id is handed out by two renamings, and every id a later
\* renaming hands out is greater than every id of an earlier one.
FreshIds(entry) == entry.fresh[1]..entry.fresh[2]

C24_RenamingsShareOneCounter ==
    \A i \in 1..Len(trial_log) : \A j \in 1..Len(trial_log) :
        i < j => \A a \in FreshIds(trial_log[i]) : \A b \in FreshIds(trial_log[j]) : a < b

-----------------------------------------------------------------------------
\* C25: the clause a trial unifies with is the database clause with the k-th
\* distinct variable, in order of first occurrence over the head and then
\* the body goals from left to right, replaced at every occurrence by the
\* unnamed variable of id counter + k, counter being the value the trial's
\* frame started with; everything else is unchanged, and the frame's counter
\* has moved by the number of distinct variables.
RECURSIVE Occurrences(_)
RECURSIVE OccurrencesOf(_, _)
Occurrences(term) ==
    CASE term.k = "var" -> <<term.i>>
      [] term.k = "cmp" -> OccurrencesOf(term.a, 1)
      [] OTHER -> <<>>

OccurrencesOf(terms, j) ==
    IF j > Len(terms) THEN <<>> ELSE Occurrences(terms[j]) \o OccurrencesOf(terms, j + 1)

\* The position of id among the distinct ids of occ, by first occurrence.
Rank(occ, id) ==
    Cardinality({occ[k] : k \in 1..(CHOOSE first \in 1..Len(occ) :
                                        occ[first] = id /\ \A k \in 1..(first - 1) : occ[k] # id)})

RECURSIVE RenamedFrom(_, _, _)
RenamedFrom(term, occ, counter) ==
    CASE term.k = "var" -> var_full("", counter + Rank(occ, term.i))
      [] term.k = "cmp" ->
            compound(term.n, [j \in 1..Len(term.a) |-> RenamedFrom(term.a[j], occ, counter)])
      [] OTHER -> term

C25_RenamingIsConsistent ==
    last_trial # <<>> =>
        With(database[last_trial[1].idx], LAMBDA clause :
        With(OccurrencesOf(<<clause.head>> \o clause.body, 1), LAMBDA occ :
        With(top(last_trial[1].outer_bindings).next_variable, LAMBDA counter :
            /\ last_trial[1].rewritten_clause.head = RenamedFrom(clause.head, occ, counter)
            /\ last_trial[1].rewritten_clause.body =
                    [j \in 1..Len(clause.body) |-> RenamedFrom(clause.body[j], occ, counter)]
            /\ top(last_trial[1].stacked).next_variable
                    = counter + Cardinality({occ[k] : k \in 1..Len(occ)}))))

\* The clause tried is a rule with four distinct variables, each of them
\* twice or more in the head and the body.
C25_Witness ==
    /\ last_trial # <<>>
    /\ database[last_trial[1].idx].body # <<>>
    /\ Cardinality(clause_ids(database[last_trial[1].idx])) = 4
    /\ Len(OccurrencesOf(<<database[last_trial[1].idx].head>>
                          \o database[last_trial[1].idx].body, 1)) >= 8
    /\ ids(database[last_trial[1].idx].head) \cap ids(database[last_trial[1].idx].body[1]) # {}

-----------------------------------------------------------------------------
\* C26: when a call of unify inserts one binding v -> t, it inserts it in
\* the innermost frame, and t is a subterm of the walk of one of the two
\* arguments under the Bindings as they were before the insertion: no
\* variable of t has a binding in those Bindings, and t is not v.  For two
\* compounds this holds of each argument pair in turn, under the Bindings
\* the pairs before it left.
RECURSIVE Subterms(_)
Subterms(term) ==
    {term} \cup (IF term.k = "cmp" THEN UNION {Subterms(term.a[j]) : j \in 1..Len(term.a)}
                 ELSE {})

Inserted(before, after) ==
    UNION {{<<j, id>> : id \in DOMAIN after[j].bind \ DOMAIN before[j].bind} :
                j \in 1..Len(after)}

InsertedTermIsWalked(before, term1, term2, after) ==
    Cardinality(Inserted(before, after)) = 1 =>
        \A ins \in Inserted(before, after) :
            With(after[ins[1]].bind[ins[2]], LAMBDA t :
                /\ ins[1] = Len(after)
                /\ t # Diverged
                /\ \A w \in find_variables_set(t) : bound_directly_to(before, w) = <<>>
                /\ ~(t.k = "var" /\ t.i = ins[2])
                /\ t \in Subterms(instantiate(before, term1)) \cup Subterms(instantiate(before, term2)))

C26_BindsToTheWalkedTerm ==
    (LibCalled("unify_walk") /\ ~lib[1].out.crash) =>
        IF /\ lib[1].term1.k = "cmp" /\ lib[1].term2.k = "cmp"
           /\ lib[1].term1.n = lib[1].term2.n /\ Len(lib[1].term1.a) = Len(lib[1].term2.a)
        THEN \A k \in 1..Len(lib[1].term1.a) :
                InsertedTermIsWalked(
                    EnvAfterPairs(lib[1].term1.a, lib[1].term2.a, k - 1, lib[1].bindings),
                    lib[1].term1.a[k], lib[1].term2.a[k],
                    EnvAfterPairs(lib[1].term1.a, lib[1].term2.a, k, lib[1].bindings))
        ELSE InsertedTermIsWalked(lib[1].bindings, lib[1].term1, lib[1].term2,
                                  lib[1].out.bindings)

\* unify(Y, f(X)) was called where X was bound and Y was not, and Y is now
\* bound to the walk of f(X), which is not f(X).
C26_Witness ==
    /\ LibCalled("unify_walk") /\ lib[1].out.res
    /\ lib[1].term1 = term_builder.y /\ lib[1].term2 = compound("f", <<term_builder.x>>)
    /\ bound_directly_to(lib[1].bindings, term_builder.y) = <<>>
    /\ bound_directly_to(lib[1].bindings, term_builder.x) # <<>>
    /\ bound_directly_to(lib[1].out.bindings, term_builder.y)
            = <<instantiate(lib[1].bindings, lib[1].term2)>>
    /\ instantiate(lib[1].bindings, lib[1].term2) # lib[1].term2

-----------------------------------------------------------------------------
\* C27: under Bindings in which no variable is bound, through any number of
\* bindings, to a term that holds it, instantiate returns, and what it
\* returns holds no variable that has a binding in any frame; an unbound
\* variable, an atom and an integer come back as they are, a bound variable
\* gives the walk of the term it is bound to, and a compound keeps its
\* functor and its arity with each argument walked.
Deps(bindings, id) ==
    With(bound_directly_to(bindings, var_full("", id)), LAMBDA b :
        IF b = <<>> THEN {} ELSE ids(b[1]))

RECURSIVE ReachedFrom(_, _, _)
ReachedFrom(bindings, set, n) ==
    IF n = 0 THEN set
    ELSE ReachedFrom(bindings, set \cup UNION {Deps(bindings, id) : id \in set}, n - 1)

NoBindingCycle(bindings) ==
    \A id \in UNION {DOMAIN bindings[j].bind : j \in 1..Len(bindings)} :
        id \notin ReachedFrom(bindings, Deps(bindings, id), len(bindings))

C27_WalkFollowsChainsToTheEnd ==
    (LibCalled("walk") /\ NoBindingCycle(lib[1].bindings)) =>
        /\ ~lib[1].crash
        /\ \A w \in find_variables_set(lib[1].out[1]) :
                bound_directly_to(lib[1].bindings, w) = <<>>
        /\ CASE lib[1].term.k = "var" ->
                    With(bound_directly_to(lib[1].bindings, lib[1].term), LAMBDA b :
                        IF b = <<>> THEN lib[1].out[1] = lib[1].term
                        ELSE lib[1].out[1] = instantiate(lib[1].bindings, b[1]))
             [] lib[1].term.k = "cmp" ->
                    /\ lib[1].out[1].k = "cmp"
                    /\ lib[1].out[1].n = lib[1].term.n
                    /\ Len(lib[1].out[1].a) = Len(lib[1].term.a)
                    /\ \A j \in 1..Len(lib[1].term.a) :
                            lib[1].out[1].a[j] = instantiate(lib[1].bindings, lib[1].term.a[j])
             [] OTHER -> lib[1].out[1] = lib[1].term

\* The walk of a compound with two variables, one bound through a second
\* variable to a compound and one bound to it directly, returned a term
\* without variables.
C27_Witness ==
    /\ LibCalled("walk") /\ NoBindingCycle(lib[1].bindings)
    /\ lib[1].term.k = "cmp"
    /\ Cardinality(find_variables_set(lib[1].term)) = 2
    /\ \E v \in find_variables_set(lib[1].term) :
            /\ bound_directly_to(lib[1].bindings, v) # <<>>
            /\ bound_directly_to(lib[1].bindings, v)[1].k = "var"
    /\ ~contains_variables(lib[1].out[1])
    /\ \E j \in 1..Len(lib[1].out[1].a) : lib[1].out[1].a[j].k = "cmp"

-----------------------------------------------------------------------------
\* C28: add_variable(v, term) on a chain of frames leaves every frame below
\* the innermost one as it was; in the innermost frame v is bound to term
\* and every other key keeps its term; len() is the number of keys of all
\* frames of the chain, and it grows by exactly 1 when v was not a key of
\* the innermost frame (and stays when it was).
KeyPairs(bindings) ==
    UNION {{<<j, id>> : id \in DOMAIN bindings[j].bind} : j \in 1..Len(bindings)}

C28_InsertChangesInnermostOnly ==
    LibCalled("insert") =>
        /\ Len(lib[1].out) = Len(lib[1].bindings)
        /\ Below(lib[1].out) = Below(lib[1].bindings)
        /\ top(lib[1].out).next_variable = top(lib[1].bindings).next_variable
        /\ DOMAIN top(lib[1].out).bind = DOMAIN top(lib[1].bindings).bind \cup {lib[1].variable.i}
        /\ top(lib[1].out).bind[lib[1].variable.i] = lib[1].term
        /\ \A id \in DOMAIN top(lib[1].bindings).bind \ {lib[1].variable.i} :
                top(lib[1].out).bind[id] = top(lib[1].bindings).bind[id]
        /\ lib[1].len_before = Cardinality(KeyPairs(lib[1].bindings))
        /\ lib[1].len_after = Cardinality(KeyPairs(lib[1].out))
        /\ lib[1].len_after = lib[1].len_before
                + (IF lib[1].variable.i \in DOMAIN top(lib[1].bindings).bind THEN 0 ELSE 1)

\* A variable that is a key of the outer frame and not of the inner one was
\* inserted through the inner frame, which already held a binding: len()
\* went from 2 to 3.
C28_Witness ==
    /\ LibCalled("insert")
    /\ Len(lib[1].bindings) = 2
    /\ lib[1].variable.i \in DOMAIN lib[1].bindings[1].bind
    /\ lib[1].variable.i \notin DOMAIN lib[1].bindings[2].bind
    /\ lib[1].bindings[2].bind # <<>>
    /\ lib[1].len_before = 2 /\ lib[1].len_after = 3

-----------------------------------------------------------------------------
\* C29: with a database of ground facts only and a query of n goals, no call
\* ends in a walk that never returns, at most |clauses|^n answers are
\* delivered, the search makes at most |clauses| + ... + |clauses|^n clause
\* trials, no environment of a trial or of an answer has more than n frames
\* above the root and none holds a binding cycle: every pull returns, and
\* after a bounded number of trials and answers the pull that returns is the
\* one that reports the end.
GroundFactsOnly ==
    /\ query # <<>>
    /\ \A j \in 1..Len(database) :
            database[j].body = <<>> /\ ~contains_variables(database[j].head)

RECURSIVE TrialsBound(_, _)
TrialsBound(clauses, n) ==
    IF n = 0 THEN 0 ELSE clauses * (1 + TrialsBound(clauses, n - 1))

C29_GroundFactsTerminate ==
    GroundFactsOnly =>
        /\ phase # "crashed"
        /\ phase = "pulling" => advance(iter[1], database).ev # "crash"
        /\ Len(answers) <= Len(database) ^ Len(query)
        /\ Len(trial_log) <= TrialsBound(Len(database), Len(query))
        /\ last_trial # <<>> =>
                /\ Len(last_trial[1].bindings) <= Len(root) + Len(query)
                /\ NoBindingCycle(last_trial[1].bindings)
        /\ last_env # <<>> =>
                /\ Len(last_env[1]) <= Len(root) + Len(query)
                /\ NoBindingCycle(last_env[1])

\* A query of two goals against two ground facts has delivered its four
\* answers and reported the end, after six clause trials.
C29_Witness ==
    /\ GroundFactsOnly
    /\ Len(database) = 2 /\ Len(query) = 2
    /\ Len(answers) = 4 /\ Len(trial_log) = 6
    /\ Len(last_env[1]) = Len(root) + 2
    /\ phase = "ended"

-----------------------------------------------------------------------------
\* C30: the clauses used in the derivation the search is in are the trials
\* of the log that unified and were not followed by a trial at their depth
\* or above it.  The environment a trial starts from has one frame above
\* the root for each clause used before it; the environment of an answer is
\* the one the last trial left, it has one frame above the root for each
\* clause used, and the clauses used are one for each goal of the query and
\* of the bodies of the rules used.
Used(log) ==
    {i \in 1..Len(log) :
        log[i].unified /\ \A j \in (i + 1)..Len(log) : log[j].depth > log[i].depth}

RECURSIVE BodyGoals(_, _)
BodyGoals(log, set) ==
    IF set = {} THEN 0
    ELSE With(CHOOSE i \in set : TRUE, LAMBDA i :
            Len(database[log[i].idx].body) + BodyGoals(log, set \ {i}))

AnswerJustDelivered == phase = "ready" /\ last_env # <<>>

C30_FramesAreNeverPopped ==
    /\ (last_trial # <<>> /\ trial_log # <<>>) =>
            Len(last_trial[1].outer_bindings)
                = Len(root) + Cardinality(Used(trial_log) \ {Len(trial_log)})
    /\ AnswerJustDelivered =>
            /\ last_env[1] = last_trial[1].bindings
            /\ SubSeq(last_env[1], 1, Len(root)) = root
            /\ Len(last_env[1]) = Len(root) + Cardinality(Used(trial_log))
            /\ Cardinality(Used(trial_log))
                    = Len(query) + BodyGoals(trial_log, Used(trial_log))

\* An answer to a query of two goals whose first goal was resolved by a
\* rule: three clauses used, three frames above the root, the first of them
\* holding bindings.
C30_Witness ==
    /\ AnswerJustDelivered
    /\ Len(query) = 2
    /\ Cardinality(Used(trial_log)) = 3
    /\ Len(last_env[1]) = Len(root) + 3
    /\ last_env[1][Len(root) + 1].bind # <<>>

=============================================================================
